---- MODULE Spec2Model ----
(***************************************************************************)
(* Execution engine of vinted-gangas: the job scheduler (TaskManager), the *)
(* scrape pipeline it drives (VintedScraper.scrape_and_save), and the      *)
(* identity-rotating HTTP client (VintedRequester over ScraperConfig).     *)
(***************************************************************************)
EXTENDS Integers, Sequences, FiniteSets, TLC

VARIABLES
    requester,      \* one VintedRequester with its ScraperConfig and session
    searches,       \* table searches: per id, absent / active / inactive
    settings,       \* the Settings row (alerting part)
    products,       \* table products, in insertion order
    schedulerLog,   \* table scheduler_logs, in insertion order
    jobs,           \* ids s with a job search_<s> in the APScheduler job store
    schedState,     \* "init", "running", "stopping" (in stop()), "stopped", "exited"
    _error_counts,  \* TaskManager._error_counts
    threads,        \* every execution spawned (executor worker or manual thread)
    catalog,        \* item lists the marketplace may answer a request with
    streak,         \* per search: failures the except branch has counted since the
                    \* last run recorded as success or the last removal of the job
    sent,           \* per vinted_id: product notifications attempted
    inflightAtStop, \* executions that were in flight when stop() was called
    filtering,      \* one FilterManager, the list it is given and what it returns
    notifying,      \* one NotificationManager and the product it is notifying
    enriching,      \* one run's seller step and save step, with table sellers
    scheduler,      \* the job store with fire times, the executor's instances
    alerting,       \* one failing run's except branch with its threshold alert
    sending,        \* one channel's send of a product notification
    running,        \* one scrape_and_save on its own, with its metrics
    sweeping        \* the maintenance execution under way

clientVars == <<requester, filtering, notifying, enriching, scheduler,
                alerting, sweeping, running, sending>>
dbVars == <<searches, settings, products, schedulerLog>>
schedVars == <<jobs, schedState, _error_counts, threads>>
envVars == <<catalog, streak, sent, inflightAtStop>>
vars == <<requester, searches, settings, products, schedulerLog, jobs,
          schedState, _error_counts, threads, catalog, streak, sent,
          inflightAtStop, filtering, notifying, enriching, scheduler,
          alerting, sweeping, running, sending>>

(***************************************************************************)
(* ScraperConfig: identity and proxy pools with their rotation indices.    *)
(* A pool of n entries is the sequence 1..n; indices are 0-based as in the *)
(* source.                                                                 *)
(***************************************************************************)
MaxPool == 3

DefaultUA == 0
NoProxy == 0

Configs ==
    [nUA : 1..MaxPool, uaRot : BOOLEAN, uaIdx : {0},
     proxiesEnabled : BOOLEAN, nProxy : 0..(MaxPool - 1), proxyRot : BOOLEAN,
     proxyIdx : {0}]

\* A rotation that advances the index without wrapping it.
get_user_agent_NoWrap(c) ==
    IF c.nUA = 0 THEN [val |-> DefaultUA, cfg |-> c]
    ELSE IF ~c.uaRot THEN [val |-> 1, cfg |-> c]
    ELSE IF c.nUA = 1 THEN [val |-> 1, cfg |-> c]
    ELSE [val |-> c.uaIdx + 1, cfg |-> [c EXCEPT !.uaIdx = c.uaIdx + 1]]

\* ScraperConfig.get_user_agent(): the identity returned (its 1-based place
\* in the pool) and the configuration after the call.
get_user_agent(c) ==
    IF c.nUA = 0 THEN [val |-> DefaultUA, cfg |-> c]
    ELSE IF ~c.uaRot THEN [val |-> 1, cfg |-> c]
    ELSE IF c.nUA = 1 THEN [val |-> 1, cfg |-> c]
    ELSE [val |-> c.uaIdx + 1,
          cfg |-> [c EXCEPT !.uaIdx = (c.uaIdx + 1) % c.nUA]]

\* A proxy selection that rotates whatever the rotation setting says.
get_proxy_AlwaysRotate(c) ==
    IF ~c.proxiesEnabled THEN [val |-> NoProxy, cfg |-> c]
    ELSE IF c.nProxy = 0 THEN [val |-> NoProxy, cfg |-> c]
    ELSE [val |-> c.proxyIdx + 1,
          cfg |-> [c EXCEPT !.proxyIdx = (c.proxyIdx + 1) % c.nProxy]]

\* ScraperConfig.get_proxy(): the proxy returned (its 1-based place in the
\* pool, or NoProxy) and the configuration after the call.
get_proxy(c) ==
    IF ~c.proxiesEnabled THEN [val |-> NoProxy, cfg |-> c]
    ELSE IF c.nProxy = 0 THEN [val |-> NoProxy, cfg |-> c]
    ELSE IF ~c.proxyRot THEN [val |-> 1, cfg |-> c]
    ELSE [val |-> c.proxyIdx + 1,
          cfg |-> [c EXCEPT !.proxyIdx = (c.proxyIdx + 1) % c.nProxy]]

\* The Settings row as reload() reads it: the lengths of the two lists (0
\* for an empty user_agent_list or proxy_list) and the three switches.
ReloadRows ==
    [nUA : 0..MaxPool, uaRot : BOOLEAN, proxiesEnabled : BOOLEAN,
     nProxy : 0..(MaxPool - 1), proxyRot : BOOLEAN]

\* ScraperConfig.reload(): _load_config() parses the pools again and leaves
\* the rotation indices as they are.  An empty user_agent_list leaves the
\* list of the previous load in place; the proxies are emptied when they
\* are disabled.
reload(c, row) ==
    [c EXCEPT !.nUA = IF row.nUA = 0 THEN c.nUA ELSE row.nUA,
              !.uaRot = row.uaRot,
              !.proxiesEnabled = row.proxiesEnabled,
              !.nProxy = IF row.proxiesEnabled THEN row.nProxy ELSE 0,
              !.proxyRot = row.proxyRot]

\* self._user_agents[self._user_agent_index] raises IndexError.
UserAgentIndexError(c) ==
    c.nUA >= 2 /\ c.uaRot /\ c.uaIdx >= c.nUA

\* self._proxies[self._proxy_index] raises IndexError.
ProxyIndexError(c) ==
    c.proxiesEnabled /\ c.nProxy >= 1 /\ c.proxyRot /\ c.proxyIdx >= c.nProxy

(***************************************************************************)
(* VintedRequester.  hist is the trace of what one get() call did on the   *)
(* wire and to the session: every session.get attempt with its outcome,    *)
(* every header update (identity), proxy configuration and cookie refresh. *)
(***************************************************************************)
MAX_RETRIES == 3

Exc == 0                       \* session.get raised (transport-level failure)
Statuses == {200, 401, 403, 404, 500}
Outcomes == Statuses \cup {Exc}
SoftBlock == {401, 403, 404}

Event(e, a) == [ev |-> e, arg |-> a]

_update_headers(r) ==
    LET g == get_user_agent(r.cfg)
    IN  [r EXCEPT !.cfg = g.cfg, !.ua = g.val,
                  !.hist = Append(@, Event("headers", g.val))]

_configure_proxy(r) ==
    LET g == get_proxy(r.cfg)
    IN  [r EXCEPT !.cfg = g.cfg, !.proxy = g.val,
                  !.hist = Append(@, Event("proxy", g.val))]

_refresh_cookies(r) ==
    [r EXCEPT !.hist = Append(@, Event("cookies", 0))]

NewRequester(c) ==
    _update_headers([cfg |-> c, ua |-> DefaultUA, proxy |-> NoProxy,
                     hist |-> <<>>, result |-> "none", status |-> 0])

\* An iteration whose last attempt swallows a transport failure and
\* returns with no response.
AttemptHidesFailure(r, t, o) ==
    LET r1 == [r EXCEPT !.hist = Append(@, Event("get", o))]
    IN  IF o = Exc
        THEN IF t < MAX_RETRIES
             THEN _configure_proxy(_update_headers(r1))
             ELSE [r1 EXCEPT !.result = "response", !.status = 0]
        ELSE IF o \in SoftBlock /\ t < MAX_RETRIES
             THEN _refresh_cookies(_update_headers(r1))
        ELSE IF o = 200
             THEN [r1 EXCEPT !.result = "response", !.status = o]
        ELSE IF t = MAX_RETRIES
             THEN [r1 EXCEPT !.result = "response", !.status = o]
        ELSE r1

\* An iteration that treats a 200 like any other status: it rotates and
\* retries until the last attempt.
AttemptNoShortCircuit(r, t, o) ==
    LET r1 == [r EXCEPT !.hist = Append(@, Event("get", o))]
    IN  IF o = Exc
        THEN IF t < MAX_RETRIES
             THEN _configure_proxy(_update_headers(r1))
             ELSE [r1 EXCEPT !.result = "raised", !.status = 0]
        ELSE IF t < MAX_RETRIES
             THEN _refresh_cookies(_update_headers(r1))
             ELSE [r1 EXCEPT !.result = "response", !.status = o]

\* An iteration that retries a failed attempt without updating the headers.
AttemptKeepsIdentity(r, t, o) ==
    LET r1 == [r EXCEPT !.hist = Append(@, Event("get", o))]
    IN  IF o = Exc
        THEN IF t < MAX_RETRIES
             THEN _configure_proxy(r1)
             ELSE [r1 EXCEPT !.result = "raised", !.status = 0]
        ELSE IF o \in SoftBlock /\ t < MAX_RETRIES
             THEN _refresh_cookies(r1)
        ELSE IF o = 200
             THEN [r1 EXCEPT !.result = "response", !.status = o]
        ELSE IF t = MAX_RETRIES
             THEN [r1 EXCEPT !.result = "response", !.status = o]
        ELSE r1

\* One iteration of the while loop of get(): tried has already been
\* incremented to t and session.get produced outcome o.
Attempt(r, t, o) ==
    LET r1 == [r EXCEPT !.hist = Append(@, Event("get", o))]
    IN  IF o = Exc
        THEN IF t < MAX_RETRIES
             THEN _configure_proxy(_update_headers(r1))
             ELSE [r1 EXCEPT !.result = "raised", !.status = 0]
        ELSE IF o \in SoftBlock /\ t < MAX_RETRIES
             THEN _refresh_cookies(_update_headers(r1))
        ELSE IF o = 200
             THEN [r1 EXCEPT !.result = "response", !.status = o]
        ELSE IF t = MAX_RETRIES
             THEN [r1 EXCEPT !.result = "response", !.status = o]
        ELSE r1

RECURSIVE GetLoop(_, _, _)
GetLoop(r, tried, outs) ==
    IF tried < MAX_RETRIES
    THEN LET r1 == Attempt(r, tried + 1, outs[tried + 1])
         IN  IF r1.result # "none" THEN r1 ELSE GetLoop(r1, tried + 1, outs)
    ELSE [r EXCEPT !.result = "raised", !.status = 0]

\* get(url, params): outs[i] is what the i-th session.get would produce.
get(r, outs) ==
    GetLoop(_configure_proxy([r EXCEPT !.hist = <<>>, !.result = "none",
                                       !.status = 0]), 0, outs)

OutcomeSeqs == [1..MAX_RETRIES -> Outcomes]

(***************************************************************************)
(* The store, the scheduler and the executions.                            *)
(***************************************************************************)
MaxSearches == 2        \* search ids 1..MaxSearches
MaxRuns == 3            \* executions spawned in one behaviour
MaxShortRuns == 2       \* the same where a pair of executions is enough
MaxInFlight == 2        \* executions in flight at the same time
MaxItems == 2           \* vinted ids 1..MaxItems
MaxBatch == 2           \* items in one catalog answer

SearchIds == 1..MaxSearches
VintedIds == 1..MaxItems

Absent == -1            \* key not in the _error_counts dict

RECURSIVE Reverse(_)
Reverse(q) == IF q = <<>> THEN <<>> ELSE Append(Reverse(Tail(q)), Head(q))

Range(q) == {q[i] : i \in 1..Len(q)}

HasDuplicates(q) == \E i, j \in 1..Len(q) : i # j /\ q[i] = q[j]

Batches == UNION {[1..n -> VintedIds] : n \in 0..MaxBatch}

StoredIds == {products[i].vinted_id : i \in 1..Len(products)}

NoResults == [products_new |-> 0, products_notified |-> 0]

\* A thread's locals.  log: index of its SchedulerLog row (0 before it is
\* created); batch: the items fetched, oldest first; new: the Product
\* objects added to its session and not yet committed; reg: the value loaded by the += of the except branch;
\* fault: which pipeline step raised inside scrape_and_save, if any, or
\* "blocked" when the catalog answered every attempt with a soft block;
\* alerted: _check_and_notify_error reached the send step; pos: the run's
\* place, when it was closed as error, in its search's streak of failures;
\* solo: no other execution was in flight when the run opened its row;
\* closed: the run has recorded itself as success.
NewThread(s, m) ==
    [key |-> s, manual |-> m, pc |-> "spawned", log |-> 0, batch |-> <<>>,
     new |-> <<>>, results |-> NoResults, reg |-> 0, fault |-> "none",
     alerted |-> FALSE, pos |-> 0, solo |-> FALSE, closed |-> FALSE]

InFlight(t) == t.pc \notin {"done", "crashed", "killed"}
Executing(t) == t.pc \notin {"spawned", "done", "crashed", "killed"}

ThreadIds == 1..Len(threads)

\* SchedulerLog ids.  A row deleted with its search keeps its place in the
\* sequence, with status "deleted", so that ids are stable.
LogIds == 1..Len(schedulerLog)

\* Room for one more execution within the bounds of the model.
CanSpawn ==
    /\ Len(threads) < MaxRuns
    /\ Cardinality({i \in ThreadIds : InFlight(threads[i])}) < MaxInFlight

\* settings.scheduler_error_threshold or 3
Threshold == IF settings.threshold = 0 THEN 3 ELSE settings.threshold

\* What a catalog request ends in, as scrape_catalog sees the result of
\* get(): "raised", "ok" (a 200 with items), "blocked" (a 401/403/404 after
\* every attempt was answered 401/403/404) or "other" (any other status).
FetchKind(r) ==
    IF r.result = "raised" THEN "raised"
    ELSE IF r.status = 200 THEN "ok"
    ELSE IF \A k \in 1..Len(r.hist) :
                r.hist[k].ev = "get" => r.hist[k].arg \in SoftBlock
         THEN "blocked"
    ELSE "other"

DefaultConfig ==
    [nUA |-> 1, uaRot |-> TRUE, uaIdx |-> 0, proxiesEnabled |-> FALSE,
     nProxy |-> 0, proxyRot |-> TRUE, proxyIdx |-> 0]

FetchKinds ==
    {FetchKind(get(NewRequester(DefaultConfig), outs)) : outs \in OutcomeSeqs}

IdleClient == requester = NewRequester(DefaultConfig)

IdleEngine ==
    /\ searches = [s \in SearchIds |-> "active"]
    /\ settings = [enabled |-> TRUE, threshold |-> 3]
    /\ products = <<>>
    /\ schedulerLog = <<>>
    /\ jobs = {}
    /\ schedState = "init"
    /\ _error_counts = [s \in SearchIds |-> Absent]
    /\ threads = <<>>
    /\ catalog = {}
    /\ streak = [s \in SearchIds |-> 0]
    /\ sent = [v \in VintedIds |-> 0]
    /\ inflightAtStop = {}

(***************************************************************************)
(* FilterManager.  Strings are tokens: a positive integer is a lower-case  *)
(* word, its negation the same word with capitals, 0 the empty or missing  *)
(* string.  A text is the set of words it contains, so "word in text" is   *)
(* membership.                                                             *)
(***************************************************************************)
MaxList == 2

Lower(x) == IF x < 0 THEN -x ELSE x

\* The lists the parsers build from the Settings row: one entry per
\* non-empty line, lower-cased.
_parse_global_banned_words(row) ==
    [k \in 1..Len(row.global_banned_words) |->
        Lower(row.global_banned_words[k])]

_parse_global_banned_sellers(row) ==
    [k \in 1..Len(row.global_banned_sellers) |->
        Lower(row.global_banned_sellers[k])]

_load_config(row) ==
    [_global_min_price      |-> row.global_min_price,
     _global_banned_words   |-> _parse_global_banned_words(row),
     _global_banned_sellers |-> _parse_global_banned_sellers(row)]

SettingsRows ==
    [global_min_price      : {0, 20},
     global_banned_words   : {<<>>, <<1>>, <<-2, 1>>},
     global_banned_sellers : {<<>>, <<1>>}]

NoSearch ==
    [present |-> FALSE, banned_words |-> <<>>, banned_seller_ids |-> <<>>,
     allowed_countries |-> <<>>]

SearchContexts ==
    {NoSearch} \cup
    [present           : {TRUE},
     banned_words      : {<<>>, <<1>>, <<-1>>},
     banned_seller_ids : {<<>>, <<1>>},
     allowed_countries : {<<>>, <<1>>}]

Sellers == {<<0, 0>>, <<1, 1>>, <<-2, 1>>}

Items ==
    {[price |-> pr, words |-> w, seller_name |-> sl[1],
      seller_vinted_id |-> sl[2], seller_country |-> c] :
        pr \in {15, 25}, w \in {{}, {1}, {-1}}, sl \in Sellers,
        c \in {0, 1, 2}}

Clean(pr) ==
    [price |-> pr, words |-> {}, seller_name |-> 0, seller_vinted_id |-> 0,
     seller_country |-> 0]

\* Five candidates: one priced 15, one with word 1 in its description,
\* three clean ones at 25, 30 and 40.
FiveItems ==
    <<Clean(25), Clean(15), [Clean(25) EXCEPT !.words = {2, 1}], Clean(30),
      Clean(40)>>

ItemLists ==
    UNION {[1..n -> Items] : n \in 0..MaxList} \cup {FiveItems}

\* f"{title} {description or ''}".lower()
text_to_check(product) == {Lower(w) : w \in product.words}

\* The first entry of the list, in list order, that is in the text; 0 if
\* none is.
FirstIn(list, text) ==
    LET hits == {k \in 1..Len(list) : list[k] \in text}
    IN  IF hits = {} THEN 0
        ELSE list[CHOOSE k \in hits : \A j \in hits : k <= j]

\* The condition under which each of the six rules rejects the product.
Violates(rule, cfg, product, search) ==
    CASE rule = 1 ->
            /\ cfg._global_min_price > 0
            /\ product.price < cfg._global_min_price
      [] rule = 2 ->
            FirstIn(cfg._global_banned_words, text_to_check(product)) # 0
      [] rule = 3 ->
            /\ cfg._global_banned_sellers # <<>>
            /\ product.seller_name # 0
            /\ \E k \in 1..Len(cfg._global_banned_sellers) :
                  \/ cfg._global_banned_sellers[k] = Lower(product.seller_name)
                  \/ cfg._global_banned_sellers[k]
                        = Lower(product.seller_vinted_id)
      [] rule = 4 ->
            /\ search.present
            /\ FirstIn(search.banned_words, text_to_check(product)) # 0
      [] rule = 5 ->
            /\ search.present
            /\ search.banned_seller_ids # <<>>
            /\ product.seller_vinted_id # 0
            /\ \E k \in 1..Len(search.banned_seller_ids) :
                  search.banned_seller_ids[k] = product.seller_vinted_id
      [] rule = 6 ->
            /\ search.present
            /\ search.allowed_countries # <<>>
            /\ product.seller_country # 0
            /\ \A k \in 1..Len(search.allowed_countries) :
                  search.allowed_countries[k] # product.seller_country

\* The reason string of a rule: the rule and the value it quotes.
Reason(rule, cfg, product, search) ==
    [rule |-> rule,
     arg  |-> CASE rule = 1 -> product.price
                [] rule = 2 -> FirstIn(cfg._global_banned_words,
                                       text_to_check(product))
                [] rule = 3 -> product.seller_name
                [] rule = 4 -> FirstIn(search.banned_words,
                                       text_to_check(product))
                [] rule = 5 -> product.seller_name
                [] rule = 6 -> product.seller_country]

Passes == [passes |-> TRUE, reason |-> [rule |-> 0, arg |-> 0]]

Rejects(rule, cfg, product, search) ==
    [passes |-> FALSE, reason |-> Reason(rule, cfg, product, search)]

\* The rule chain with the global seller rule tried before the global
\* word rule.
filter_product_SellersFirst(cfg, product, search) ==
    IF Violates(1, cfg, product, search)
    THEN Rejects(1, cfg, product, search)
    ELSE IF Violates(3, cfg, product, search)
    THEN Rejects(3, cfg, product, search)
    ELSE IF Violates(2, cfg, product, search)
    THEN Rejects(2, cfg, product, search)
    ELSE IF Violates(4, cfg, product, search)
    THEN Rejects(4, cfg, product, search)
    ELSE IF Violates(5, cfg, product, search)
    THEN Rejects(5, cfg, product, search)
    ELSE IF Violates(6, cfg, product, search)
    THEN Rejects(6, cfg, product, search)
    ELSE Passes

\* FilterManager.filter_product: (passes, reason).
filter_product(cfg, product, search) ==
    IF Violates(1, cfg, product, search)
    THEN Rejects(1, cfg, product, search)
    ELSE IF Violates(2, cfg, product, search)
    THEN Rejects(2, cfg, product, search)
    ELSE IF Violates(3, cfg, product, search)
    THEN Rejects(3, cfg, product, search)
    ELSE IF Violates(4, cfg, product, search)
    THEN Rejects(4, cfg, product, search)
    ELSE IF Violates(5, cfg, product, search)
    THEN Rejects(5, cfg, product, search)
    ELSE IF Violates(6, cfg, product, search)
    THEN Rejects(6, cfg, product, search)
    ELSE Passes

\* rejection_reasons[reason] = rejection_reasons.get(reason, 0) + 1
Count(hist, reason) ==
    IF reason \in DOMAIN hist
    THEN [hist EXCEPT ![reason] = @ + 1]
    ELSE hist @@ (reason :> 1)

NoReasons == [r \in {} |-> 0]

RECURSIVE FilterLoop(_, _, _, _)
FilterLoop(cfg, todo, search, acc) ==
    IF todo = <<>> THEN acc
    ELSE LET v == filter_product(cfg, Head(todo), search)
         IN  FilterLoop(cfg, Tail(todo), search,
                IF v.passes
                THEN [acc EXCEPT !.filtered = Append(@, Head(todo)),
                                 !.verdicts = Append(@, v)]
                ELSE [acc EXCEPT !.rejected = Append(@, Head(todo)),
                                 !.verdicts = Append(@, v),
                                 !.rejection_reasons = Count(@, v.reason)])

\* A batch filter that counts the rejections and hands every product on.
filter_products_KeepsAll(cfg, items, search) ==
    LET r == FilterLoop(cfg, items, search,
                [filtered |-> <<>>, rejected |-> <<>>, verdicts |-> <<>>,
                 rejection_reasons |-> NoReasons])
    IN  [filtered |-> items,
         verdicts |-> r.verdicts,
         stats    |-> [total    |-> Len(items),
                       accepted |-> Len(r.filtered),
                       rejected |-> Len(r.rejected),
                       rejection_reasons |-> r.rejection_reasons]]

\* A batch filter whose statistics count every product as accepted.
filter_products_CountsAll(cfg, items, search) ==
    LET r == FilterLoop(cfg, items, search,
                [filtered |-> <<>>, rejected |-> <<>>, verdicts |-> <<>>,
                 rejection_reasons |-> NoReasons])
    IN  [filtered |-> r.filtered,
         verdicts |-> r.verdicts,
         stats    |-> [total    |-> Len(items),
                       accepted |-> Len(items),
                       rejected |-> Len(r.rejected),
                       rejection_reasons |-> r.rejection_reasons]]

\* FilterManager.filter_products: the accepted products and the statistics;
\* verdicts keeps what filter_product returned for each product in turn.
filter_products(cfg, items, search) ==
    LET r == FilterLoop(cfg, items, search,
                [filtered |-> <<>>, rejected |-> <<>>, verdicts |-> <<>>,
                 rejection_reasons |-> NoReasons])
    IN  [filtered |-> r.filtered,
         verdicts |-> r.verdicts,
         stats    |-> [total    |-> Len(items),
                       accepted |-> Len(r.filtered),
                       rejected |-> Len(r.rejected),
                       rejection_reasons |-> r.rejection_reasons]]

NoOutput ==
    [filtered |-> <<>>, verdicts |-> <<>>,
     stats |-> [total |-> 0, accepted |-> 0, rejected |-> 0,
                rejection_reasons |-> NoReasons]]

NewFilterManager(row, search, items) ==
    [cfg |-> _load_config(row), search |-> search, items |-> items,
     stage |-> "loaded", out |-> NoOutput, again |-> NoOutput]

IdleFilter == NewFilterManager(
    [global_min_price |-> 0, global_banned_words |-> <<>>,
     global_banned_sellers |-> <<>>], NoSearch, <<>>)

(***************************************************************************)
(* NotificationManager.notify_product: the three channel blocks in turn,   *)
(* then the delivered flag of the product.                                 *)
(***************************************************************************)
Channels == <<"telegram", "discord", "webhook">>

ChannelSet == {Channels[k] : k \in 1..Len(Channels)}

\* What send_product_notification does: returns True, returns False, raises.
SendOutcomes == {"sent", "failed", "raised"}

AfterChannel(ch) ==
    CASE ch = "telegram" -> "discord"
      [] ch = "discord"  -> "webhook"
      [] ch = "webhook"  -> "mark"

NoneYet == [c \in {} |-> FALSE]

\* A manager with the given channels configured, about to notify a product
\* whose is_notified is the given flag.  tried and was are history: the
\* outcome of each send, and the flag before the call.
NewNotificationManager(active, flag) ==
    [active |-> active, is_notified |-> flag, was |-> flag,
     pc |-> "telegram", results |-> NoneYet, tried |-> NoneYet,
     log |-> <<>>, marked |-> FALSE]

IdleNotifier == NewNotificationManager({}, FALSE)

\* _log_notification: one notifications row.
_log_notification(n, ch, status) ==
    Append(n.log, [channel |-> ch, status |-> status])

\* A channel block whose exception leaves notify_product.
SendOnPropagates(n, ch, o) ==
    IF ch \notin n.active THEN [n EXCEPT !.pc = AfterChannel(ch)]
    ELSE IF o = "raised"
    THEN [n EXCEPT !.tried = @ @@ (ch :> o), !.pc = "raised"]
    ELSE [n EXCEPT !.tried = @ @@ (ch :> o),
                   !.results = @ @@ (ch :> (o = "sent")),
                   !.log = _log_notification(n, ch, o),
                   !.pc = AfterChannel(ch)]

\* One channel block of notify_product: skipped if the channel is not
\* configured; otherwise the send, its result in the map and its row in the
\* notifications table, an exception counting as a failure.
SendOn(n, ch, o) ==
    IF ch \notin n.active THEN [n EXCEPT !.pc = AfterChannel(ch)]
    ELSE [n EXCEPT !.tried = @ @@ (ch :> o),
                   !.results = @ @@ (ch :> (o = "sent")),
                   !.log = _log_notification(n, ch,
                              IF o = "sent" THEN "sent" ELSE "failed"),
                   !.pc = AfterChannel(ch)]

\* any(results.values())
AnySuccess(results) == \E c \in DOMAIN results : results[c]

\* A marking that wants every configured channel to have succeeded.
MarkAll(n) ==
    IF n.results # NoneYet /\ \A c \in DOMAIN n.results : n.results[c]
    THEN [n EXCEPT !.is_notified = TRUE, !.marked = TRUE, !.pc = "returned"]
    ELSE [n EXCEPT !.pc = "returned"]

\* The end of notify_product: the product is marked notified if some
\* channel succeeded, and the result map is returned.
Mark(n) ==
    IF AnySuccess(n.results)
    THEN [n EXCEPT !.is_notified = TRUE, !.marked = TRUE, !.pc = "returned"]
    ELSE [n EXCEPT !.pc = "returned"]

(***************************************************************************)
(* scrape_and_save, steps 3 and 4 of one run: the sellers of the accepted  *)
(* products are looked up, fetched and stored, then the products are saved *)
(* with their seller link.  Times are whole hours.                         *)
(***************************************************************************)
MaxSellers == 2

SellerVids == 1..MaxSellers

UPDATE_SELLER_AFTER_DAYS == 1

\* datetime.utcnow() when the step starts.
Now == 48

update_threshold == Now - 24 * UPDATE_SELLER_AFTER_DAYS

\* Product.seller_id of a product whose seller has no row.
NullLink == 0

NoSeller ==
    [present |-> FALSE, id |-> 0, data |-> 0, first_seen_at |-> 0,
     last_updated_at |-> 0]

\* Rows of table sellers as earlier runs may have left them: refreshed 2,
\* 24 or 25 hours ago, first seen 40 hours ago.
StoredSellers(v) ==
    {[present |-> TRUE, id |-> v, data |-> 0, first_seen_at |-> Now - 40,
      last_updated_at |-> Now - age] : age \in {2, 24, 25}}

\* What get_seller_info and the commit after it end in: the request raises,
\* no seller is returned, a SellerCreate with some field values is returned
\* and stored, or it is returned and the commit raises.
SellerOutcomes ==
    {[kind |-> "raised", data |-> 0], [kind |-> "none", data |-> 0]}
    \cup [kind : {"stored", "commit_raised"}, data : {1, 2}]

NotTried == [kind |-> "skipped", data |-> 0]

\* The next Seller.id the database assigns.
NextSellerId(sellers) ==
    LET ids == {0} \cup {sellers[v].id : v \in SellerVids}
    IN  1 + CHOOSE m \in ids : \A n \in ids : n <= m

\* All distinct lists over a set of sellers.
RECURSIVE Orders(_)
Orders(S) ==
    IF S = {} THEN {<<>>}
    ELSE UNION {{<<v>> \o rest : rest \in Orders(S \ {v})} : v \in S}

\* A freshness test that sends every stored seller to the fetch.
IsFreshNever(row) == FALSE

\* if last_updated and last_updated > update_threshold: continue
IsFresh(row) == row.last_updated_at > update_threshold

\* A seller loop that an exception leaves altogether.
enrich_seller_Aborts(e, v, o) ==
    LET row == e.sellers[v]
        rest == Tail(e.todo)
    IN  IF row.present /\ IsFresh(row)
        THEN [e EXCEPT !.todo = rest, !.got[v] = NotTried]
        ELSE IF o.kind \in {"raised", "commit_raised"}
        THEN [e EXCEPT !.todo = <<>>, !.got[v] = o, !.pc = "save"]
        ELSE IF o.kind = "none"
        THEN [e EXCEPT !.todo = rest, !.got[v] = o]
        ELSE IF row.present
        THEN [e EXCEPT !.todo = rest, !.got[v] = o,
                       !.sellers[v].data = o.data,
                       !.sellers[v].last_updated_at = Now,
                       !.sellers_updated = @ + 1]
        ELSE [e EXCEPT !.todo = rest, !.got[v] = o,
                       !.sellers[v] = [present |-> TRUE,
                                       id |-> NextSellerId(e.sellers),
                                       data |-> o.data,
                                       first_seen_at |-> Now,
                                       last_updated_at |-> Now],
                       !.sellers_new = @ + 1]

\* One pass of the seller loop, for seller v with outcome o of the fetch
\* and commit if they are reached.  got records that outcome.
enrich_seller(e, v, o) ==
    LET row == e.sellers[v]
        rest == Tail(e.todo)
    IN  IF row.present /\ IsFresh(row)
        THEN [e EXCEPT !.todo = rest, !.got[v] = NotTried]
        ELSE IF o.kind \in {"raised", "commit_raised", "none"}
        THEN [e EXCEPT !.todo = rest, !.got[v] = o]
        ELSE IF row.present
        THEN [e EXCEPT !.todo = rest, !.got[v] = o,
                       !.sellers[v].data = o.data,
                       !.sellers[v].last_updated_at = Now,
                       !.sellers_updated = @ + 1]
        ELSE [e EXCEPT !.todo = rest, !.got[v] = o,
                       !.sellers[v] = [present |-> TRUE,
                                       id |-> NextSellerId(e.sellers),
                                       data |-> o.data,
                                       first_seen_at |-> Now,
                                       last_updated_at |-> Now],
                       !.sellers_new = @ + 1]

\* product_dict['seller_id'] = seller.id if seller else None
seller_link(e, v) ==
    IF e.sellers[v].present THEN e.sellers[v].id ELSE NullLink

\* The run with the given table sellers and accepted new products, one per
\* seller of the list, in list order.  before keeps the table as it was.
NewEnrichment(sellers, list) ==
    [sellers |-> sellers, before |-> sellers, items |-> list, todo |-> list,
     got |-> [v \in SellerVids |-> NotTried], pc |-> "sellers",
     sellers_new |-> 0, sellers_updated |-> 0, products |-> <<>>]

IdleEnrichment == NewEnrichment([v \in SellerVids |-> NoSeller], <<>>)

(***************************************************************************)
(* The APScheduler job store behind TaskManager, with fire times.  Time is *)
(* counted in ticks of TickSeconds seconds.                                *)
(***************************************************************************)
MaxJobs == 2
MaxClock == 5
TickSeconds == 5 * 60

\* job_defaults of the BackgroundScheduler.
coalesce == TRUE
max_instances == 1
misfire_grace_time == 300

GraceTicks == misfire_grace_time \div TickSeconds
Ticks(minutes) == (minutes * 60) \div TickSeconds
DayTicks == Ticks(24 * 60)

\* Values of Search.interval_minutes.
IntervalMinutes == {5, 15}

NoTime == -1            \* next_run_time is None: the job is paused

JobNumbers == 1..MaxJobs

\* f"search_{search.id}"
search_job_id(s) == [prefix |-> "search_", n |-> s]

data_cleanup_daily == [prefix |-> "data_cleanup_daily", n |-> 0]

data_mark_notified_periodic == [prefix |-> "data_mark_notified_periodic", n |-> 0]

JobIds == {search_job_id(s) : s \in JobNumbers}
             \cup {data_cleanup_daily, data_mark_notified_periodic}

\* Order of the job ids as strings.
IdRank(id) ==
    IF id = data_cleanup_daily THEN 0
    ELSE IF id = data_mark_notified_periodic THEN 1
    ELSE 1 + id.n

CeilDiv(a, b) == (a + b - 1) \div b

\* trigger.get_next_fire_time(previous_fire_time, now): IntervalTrigger
\* steps from its start date, CronTrigger(hour=1, minute=0) fires once a
\* day (tick 0 is taken as 01:00).
get_next_fire_time(job, previous, now) ==
    IF job.kind = "cron"
    THEN IF previous # NoTime
         THEN ((previous \div DayTicks) + 1) * DayTicks
         ELSE CeilDiv(now, DayTicks) * DayTicks
    ELSE IF previous # NoTime THEN previous + job.interval
         ELSE IF job.start_date > now THEN job.start_date
         ELSE job.start_date
                 + CeilDiv(now - job.start_date, job.interval) * job.interval

\* The memory job store keeps its list sorted by (next_run_time, id), the
\* paused jobs last.
Before(a, b) ==
    LET ta == a.next_run_time
        tb == b.next_run_time
    IN  IF ta = tb THEN IdRank(a.id) < IdRank(b.id)
        ELSE IF ta = NoTime THEN FALSE
        ELSE IF tb = NoTime THEN TRUE
        ELSE ta < tb

insert(js, job) ==
    LET p == Cardinality({k \in 1..Len(js) : Before(js[k], job)})
    IN  SubSeq(js, 1, p) \o <<job>> \o SubSeq(js, p + 1, Len(js))

get_job(js, id) == \E k \in 1..Len(js) : js[k].id = id

JobOf(js, id) == js[CHOOSE k \in 1..Len(js) : js[k].id = id]

remove_job(js, id) ==
    LET Other(j) == j.id # id
    IN  SelectSeq(js, Other)

\* scheduler.add_job(..., replace_existing): a job with the same id is
\* replaced, or the call raises ConflictingIdError and the store is kept.
add_job(js, job, replace_existing) ==
    IF get_job(js, job.id)
    THEN IF replace_existing THEN insert(remove_job(js, job.id), job) ELSE js
    ELSE insert(js, job)

\* A job that is paused keeps its place in the store without a fire time.
pause_job(js, id) ==
    insert(remove_job(js, id), [JobOf(js, id) EXCEPT !.next_run_time = NoTime])

resume_job(js, id, now) ==
    LET job == JobOf(js, id)
    IN  insert(remove_job(js, id),
               [job EXCEPT !.next_run_time =
                               get_next_fire_time(job, NoTime, now)])

\* IntervalTrigger(minutes=...) made at time now starts one interval later.
IntervalJob(id, ticks, now) ==
    [id |-> id, kind |-> "interval", interval |-> ticks,
     start_date |-> now + ticks, next_run_time |-> now + ticks]

CronJob(id, now) ==
    [id |-> id, kind |-> "cron", interval |-> DayTicks, start_date |-> 0,
     next_run_time |-> CeilDiv(now, DayTicks) * DayTicks]

\* add_search_job without the removal and without replace_existing.
add_search_job_at_Appends(sch, s, minutes) ==
    [sch EXCEPT !.jobs =
        Append(sch.jobs,
               IntervalJob(search_job_id(s), Ticks(minutes), sch.now))]

\* TaskManager.add_search_job on the job store with fire times.
add_search_job_at(sch, s, minutes) ==
    LET job_id  == search_job_id(s)
        removed == IF get_job(sch.jobs, job_id)
                   THEN remove_job(sch.jobs, job_id) ELSE sch.jobs
    IN  [sch EXCEPT !.jobs =
            add_job(removed, IntervalJob(job_id, Ticks(minutes), sch.now),
                    TRUE)]

\* TaskManager.remove_search_job, the part acting on the job store.
remove_search_job_at(sch, s) ==
    IF get_job(sch.jobs, search_job_id(s))
    THEN [sch EXCEPT !.jobs = remove_job(sch.jobs, search_job_id(s))]
    ELSE sch

pause_search_job(sch, s) ==
    IF get_job(sch.jobs, search_job_id(s))
    THEN [sch EXCEPT !.jobs = pause_job(sch.jobs, search_job_id(s))]
    ELSE sch

resume_search_job(sch, s) ==
    IF get_job(sch.jobs, search_job_id(s))
    THEN [sch EXCEPT !.jobs = resume_job(sch.jobs, search_job_id(s), sch.now)]
    ELSE sch

_add_maintenance_jobs(sch) ==
    LET first == add_job(sch.jobs, CronJob(data_cleanup_daily, sch.now), TRUE)
    IN  [sch EXCEPT !.jobs =
            add_job(first,
                    IntervalJob(data_mark_notified_periodic, Ticks(60),
                                sch.now),
                    TRUE)]

\* load_all_searches(): one add_search_job per active search, in id order;
\* active[s] is the interval of search s, 0 when it is not active.
RECURSIVE load_all_searches(_, _, _)
load_all_searches(sch, active, s) ==
    IF s > MaxJobs THEN sch
    ELSE load_all_searches(IF active[s] = 0 THEN sch
                           ELSE add_search_job_at(sch, s, active[s]),
                           active, s + 1)

\* job._get_run_times(now): every fire time from next_run_time up to now.
RECURSIVE _get_run_times(_, _, _)
_get_run_times(job, t, now) ==
    IF t = NoTime \/ t > now THEN <<>>
    ELSE <<t>> \o _get_run_times(job, get_next_fire_time(job, t, now), now)

\* Every missed fire time is run.
Coalesced_All(run_times) == run_times

\* run_times[-1:] under coalesce.
Coalesced(run_times) ==
    IF coalesce THEN SubSeq(run_times, Len(run_times), Len(run_times))
    ELSE run_times

\* run_job calls the job function once per run time that is not older than
\* the grace time.
Calls(run_times, now) ==
    Cardinality({k \in 1..Len(run_times) : now - run_times[k] <= GraceTicks})

NoDispatch == [due |-> 0, calls |-> 0, backlog |-> FALSE]

NoUpsert == [s |-> 0, minutes |-> 0, replaced |-> FALSE]

\* sorted(search_jobs, key=lambda j: j.next_run_time): comparing None with
\* a datetime or with None raises TypeError.
SortRaises(js) ==
    /\ Len(js) >= 2
    /\ \E k \in 1..Len(js) : js[k].next_run_time = NoTime

RECURSIVE sorted_by_next_run_time(_)
sorted_by_next_run_time(js) ==
    IF js = <<>> THEN <<>>
    ELSE LET rest == sorted_by_next_run_time(SubSeq(js, 1, Len(js) - 1))
             j    == js[Len(js)]
             p    == Cardinality({k \in 1..Len(rest) :
                         rest[k].next_run_time <= j.next_run_time})
         IN  SubSeq(rest, 1, p) \o <<j>> \o SubSeq(rest, p + 1, Len(rest))

\* q[:n]
FirstN(q, n) == SubSeq(q, 1, IF Len(q) < n THEN Len(q) ELSE n)

NoStatus ==
    [called |-> FALSE, raised |-> FALSE, running |-> FALSE, jobs_count |-> 0,
     search_jobs_count |-> 0, maintenance_jobs_count |-> 0,
     next_executions |-> <<>>]

\* scheduler.get_jobs(): the store of a running scheduler, the pending jobs
\* (none here) of a stopped one.
get_jobs(sch) == IF sch.running THEN sch.jobs ELSE <<>>

get_status(sch) ==
    LET js          == get_jobs(sch)
        IsSearch(j) == j.id.prefix = "search_"
        search_jobs == SelectSeq(js, IsSearch)
    IN  IF SortRaises(search_jobs)
        THEN [NoStatus EXCEPT !.called = TRUE, !.raised = TRUE]
        ELSE LET first == FirstN(sorted_by_next_run_time(search_jobs), 10)
             IN  [called |-> TRUE, raised |-> FALSE,
                  running |-> sch.running,
                  jobs_count |-> Len(js),
                  search_jobs_count |-> Len(search_jobs),
                  maintenance_jobs_count |-> Len(js) - Len(search_jobs),
                  next_executions |->
                      [k \in 1..Len(first) |->
                          [search_id |-> first[k].id.n,
                           next_run |-> first[k].next_run_time]]]

\* The scheduler as TaskManager.__init__ leaves it.
NewScheduler ==
    [running |-> FALSE, now |-> 0, jobs |-> <<>>,
     instances |-> [id \in JobIds |-> 0],
     last |-> NoDispatch, upsert |-> NoUpsert, status |-> NoStatus]

(***************************************************************************)
(* One channel sending one product notification                            *)
(* (send_product_notification of the Telegram, Discord and webhook         *)
(* notifiers).                                                             *)
(***************************************************************************)
\* What a post to the channel ends in: accepted (204 from Discord, ok from
\* Telegram, 2xx from the webhook), a rate limit (429), another error
\* answer, a timeout, or another exception.
Responses == {"ok", "rate_limited", "error", "timeout", "raised"}

\* A send on channel ch; outs[k] is what the k-th post would end in.
NewSend(ch, outs) ==
    [channel |-> ch, outs |-> outs, sends |-> 0, pauses |-> 0,
     pc |-> "send", result |-> FALSE]

NoSend == [NewSend("telegram", <<"ok", "ok">>) EXCEPT !.pc = "idle"]

\* The first post.  Only the Discord notifier tells a 429 from the other
\* answers: it sleeps Retry-After seconds and posts again.
send_first(x) ==
    LET o  == x.outs[1]
        x1 == [x EXCEPT !.sends = 1]
    IN  IF x.channel = "discord" /\ o = "rate_limited"
        THEN [x1 EXCEPT !.pauses = 1, !.pc = "retry"]
        ELSE [x1 EXCEPT !.result = (o = "ok"), !.pc = "returned"]

\* The second post of the Discord notifier: its answer is the result.
send_retry(x) ==
    [x EXCEPT !.sends = 2, !.result = (x.outs[2] = "ok"), !.pc = "returned"]

(***************************************************************************)
(* One scrape_and_save on its own, from the catalog answer to the metrics  *)
(* _run_search_job records: truncation, filters, save, notification.  The  *)
(* seller step between the filters and the save changes none of these.     *)
(***************************************************************************)
MaxFetched == 3

\* A fetched item: a product priced pr with no word and no seller that a
\* filter knows.
RunItem(v, pr) ==
    [vinted_id |-> v, price |-> pr, words |-> {}, seller_name |-> 0,
     seller_vinted_id |-> 0, seller_country |-> 0]

RunItems == {RunItem(v, pr) : v \in VintedIds, pr \in {15, 25}}

\* settings.max_products_per_search, which the settings form stores as it
\* is posted.
MaxProductsValues == {-1, 0, 1, 2}

\* The filter configuration of the run: a global minimum price of 20.
RunFilterConfig ==
    _load_config([global_min_price |-> 20, global_banned_words |-> <<>>,
                  global_banned_sellers |-> <<>>])

\* products_data[:max_products]
Slice(q, n) ==
    IF n >= 0 THEN FirstN(q, n)
    ELSE FirstN(q, IF Len(q) + n < 0 THEN 0 ELSE Len(q) + n)

\* The metrics scrape_and_save returns.
RunResult(found, new, filtered, notified) ==
    [products_found |-> found, products_new |-> new,
     products_filtered |-> filtered, products_notified |-> notified]

\* _build_empty_result and _build_error_result
EmptyResult == RunResult(0, 0, 0, 0)

NoMetrics == [status |-> "running", products_found |-> 0, products_new |-> 0,
              products_filtered |-> 0, products_notified |-> 0]

\* A run over a catalog answer, with the vinted ids stored beforehand.
\* total and products_rejected are filter_stats_result['total'] and
\* products_rejected; unfiltered: the filter step raised; saved: the items
\* this run persisted; log: the metrics of its SchedulerLog row.
NewRun(fetched, max, stored) ==
    [pc |-> "fetch", fetched |-> fetched, max_products |-> max,
     stored |-> stored, products_data |-> <<>>, total |-> 0,
     products_rejected |-> 0, unfiltered |-> FALSE, saved |-> <<>>,
     results |-> EmptyResult, log |-> NoMetrics]

NoRun == [NewRun(<<>>, 1, {}) EXCEPT !.pc = "idle"]

\* Step 1: the catalog answer reversed and cut to max_products.
run_fetch(r) ==
    LET reversed == Reverse(r.fetched)
        data     == IF Len(reversed) > r.max_products
                    THEN Slice(reversed, r.max_products) ELSE reversed
    IN  IF data = <<>>
        THEN [r EXCEPT !.results = EmptyResult, !.pc = "close"]
        ELSE [r EXCEPT !.products_data = data, !.pc = "filter"]

\* Step 1 raising: the error result.
run_fetch_raises(r) == [r EXCEPT !.results = EmptyResult, !.pc = "close"]

\* Step 2: only the accepted products go on; a run with none left returns.
run_filter(r) ==
    LET out == filter_products(RunFilterConfig, r.products_data, NoSearch)
    IN  IF out.filtered = <<>>
        THEN [r EXCEPT !.products_data = <<>>,
                       !.total = out.stats.total,
                       !.products_rejected = out.stats.rejected,
                       !.results = RunResult(out.stats.total, 0,
                                             out.stats.rejected, 0),
                       !.pc = "close"]
        ELSE [r EXCEPT !.products_data = out.filtered,
                       !.total = out.stats.total,
                       !.products_rejected = out.stats.rejected,
                       !.pc = "save"]

\* Step 2 raising: the run goes on with what it fetched, nothing rejected.
run_filter_raises(r) ==
    [r EXCEPT !.total = Len(r.products_data), !.products_rejected = 0,
              !.unfiltered = TRUE, !.pc = "save"]

\* Step 4: every product whose vinted_id is not stored is added, then one
\* commit; the unique constraint fails the commit and the run returns the
\* error result.
run_save(r) ==
    LET fresh == SelectSeq(r.products_data,
                           LAMBDA p : p.vinted_id \notin r.stored)
        ids   == [k \in 1..Len(fresh) |-> fresh[k].vinted_id]
    IN  IF HasDuplicates(ids)
        THEN [r EXCEPT !.results = EmptyResult, !.pc = "close"]
        ELSE [r EXCEPT !.saved = fresh, !.pc = "notify"]

RECURSIVE notify_count_channels(_)
\* A notification count that adds up the channels that delivered.
notify_count_channels(delivered) ==
    IF delivered = <<>> THEN 0
    ELSE Head(delivered) + notify_count_channels(Tail(delivered))

\* notify_products(...)['success']: the products that some channel
\* delivered; delivered[k] is the number of channels that delivered the
\* k-th product.
notify_count(delivered) ==
    Cardinality({k \in 1..Len(delivered) : delivered[k] > 0})

\* Step 5 and the statistics: delivered is empty when nothing was attempted
\* (nothing new, no channel configured, or the step raised).
run_notify(r, delivered) ==
    [r EXCEPT !.results = RunResult(r.total, Len(r.saved),
                                    r.products_rejected,
                                    notify_count(delivered)),
              !.pc = "close"]

\* _run_search_job copies the metrics into its row and closes it.
run_close(r) ==
    [r EXCEPT !.log = [status            |-> "success",
                       products_found    |-> r.results.products_found,
                       products_new      |-> r.results.products_new,
                       products_filtered |-> r.results.products_filtered,
                       products_notified |-> r.results.products_notified],
              !.pc = "done"]

(***************************************************************************)
(* The threshold alert of a failing run (_check_and_notify_error).         *)
(***************************************************************************)
\* The channels in the order the alert tries them.
AlertChannels == <<"telegram", "discord", "webhook">>

\* The Settings row as the alert reads it: missing, or with the alert
\* switch, the threshold and the channels that are configured.
AlertSettings ==
    {[present |-> FALSE, enabled |-> FALSE, threshold |-> 0, channels |-> {}]}
       \cup [present : {TRUE}, enabled : BOOLEAN, threshold : {0, 2},
             channels : SUBSET {"telegram", "discord", "webhook"}]

\* What sending on a channel ends in.  TelegramNotifier has no send_text:
\* the call on the Telegram channel always raises.
AlertOutcomes(ch) ==
    IF ch = "telegram" THEN {"raised"} ELSE {"sent", "raised"}

NoAlert ==
    [pc |-> "idle", key |-> 1, log |-> 1, count |-> 0, fault |-> "none",
     sent |-> {}, raised |-> {}]

AfterAlertChannel(ch) ==
    IF ch = "telegram" THEN "discord"
    ELSE IF ch = "discord" THEN "webhook" ELSE "returned"

\* The exception of a channel leaves _check_and_notify_error.
AlertSendPropagates(a, ch, o) ==
    IF o = "raised"
    THEN [a EXCEPT !.raised = @ \cup {ch}, !.pc = "escaped"]
    ELSE [a EXCEPT !.sent = @ \cup {ch}, !.pc = AfterAlertChannel(ch)]

\* One channel of the alert, inside its own try/except.
AlertSend(a, ch, o) ==
    IF o = "raised"
    THEN [a EXCEPT !.raised = @ \cup {ch}, !.pc = AfterAlertChannel(ch)]
    ELSE [a EXCEPT !.sent = @ \cup {ch}, !.pc = AfterAlertChannel(ch)]

(***************************************************************************)
(* The maintenance jobs: the retention sweep and the notification-aging    *)
(* sweep over the whole products table.  Times are hours.                  *)
(***************************************************************************)
MaxSweeps == 2
MaxStored == 2

MaintenanceJobs == {"data_cleanup_daily", "data_mark_notified_periodic"}

\* The Settings row as the sweeps read it.
SweepSettings ==
    {[present |-> FALSE, auto_delete_products_days |-> 0,
      auto_mark_notified_hours |-> 0]}
       \cup [present : {TRUE}, auto_delete_products_days : {0, 1},
             auto_mark_notified_hours : {0, 24}]

StoredProducts ==
    [vinted_id : {1}, found_at : {Now - 50, Now - 30, Now - 2},
     is_notified : BOOLEAN]

\* The SchedulerLog row a maintenance job opens; error_count keeps its
\* column default.
MaintenanceRow(job) ==
    [search_id |-> 0, job_id |-> job,
     job_type |-> IF job = "data_cleanup_daily" THEN "cleanup"
                  ELSE "maintenance",
     status |-> "running", error_count |-> 0,
     products_new |-> 0, products_notified |-> 0]

\* count: the rows the last sweep found to delete or to mark.
NoSweep == [job |-> "none", pc |-> "idle", log |-> 0, runs |-> 0, count |-> 0]

\* A retention sweep that computes its cutoff whatever the setting is.
_cleanup_old_products_unguarded(cfg, rows) ==
    LET cutoff_date == Now - 24 * cfg.auto_delete_products_days
        Kept(p)     == ~(p.found_at < cutoff_date)
    IN  SelectSeq(rows, Kept)

\* The products left by the retention sweep.
_cleanup_old_products(cfg, rows) ==
    IF ~cfg.present \/ cfg.auto_delete_products_days = 0 THEN rows
    ELSE LET cutoff_date == Now - 24 * cfg.auto_delete_products_days
             Kept(p)     == ~(p.found_at < cutoff_date)
         IN  SelectSeq(rows, Kept)

\* The products left by the notification-aging sweep.
_mark_old_products_as_notified(cfg, rows) ==
    IF ~cfg.present \/ cfg.auto_mark_notified_hours = 0 THEN rows
    ELSE LET cutoff_date == Now - cfg.auto_mark_notified_hours
         IN  [k \in 1..Len(rows) |->
                 IF ~rows[k].is_notified /\ rows[k].found_at < cutoff_date
                 THEN [rows[k] EXCEPT !.is_notified = TRUE]
                 ELSE rows[k]]

\* No filtering, no product notification and no seller step under way.
IdleTools ==
    /\ filtering = IdleFilter
    /\ notifying = IdleNotifier
    /\ enriching = IdleEnrichment
    /\ scheduler = NewScheduler
    /\ alerting = NoAlert
    /\ sweeping = NoSweep
    /\ running = NoRun
    /\ sending = NoSend

(***************************************************************************)
(* TaskManager: job store operations and lifecycle.                        *)
(***************************************************************************)
add_search_job(js, s) == js \cup {s}

\* Returns the job store and the counter map after remove_search_job(s).
remove_search_job(js, ec, s) ==
    IF s \in js
    THEN [jobs |-> js \ {s}, counts |-> [ec EXCEPT ![s] = Absent]]
    ELSE [jobs |-> js, counts |-> ec]

\* start(): load_all_searches() schedules every active search.
Start ==
    /\ schedState = "init"
    /\ jobs' = jobs \cup {s \in SearchIds : searches[s] = "active"}
    /\ schedState' = "running"
    /\ UNCHANGED <<clientVars, dbVars, _error_counts, threads, envVars>>

\* stop(): scheduler.shutdown(wait=True) first marks the scheduler stopped,
\* then joins the executor's workers.
StopBegin ==
    /\ schedState = "running"
    /\ schedState' = "stopping"
    /\ inflightAtStop' = {i \in ThreadIds : Executing(threads[i])}
    /\ UNCHANGED <<clientVars, dbVars, jobs, _error_counts, threads, catalog,
                   streak, sent>>

StopReturn ==
    /\ schedState = "stopping"
    /\ \A i \in ThreadIds : ~threads[i].manual => ~InFlight(threads[i])
    /\ schedState' = "stopped"
    /\ UNCHANGED <<clientVars, dbVars, jobs, _error_counts, threads, envVars>>

\* The process ends after the shutdown hook has stopped the scheduler: the
\* interpreter does not wait for daemon threads, which stop where they are.
Exit ==
    /\ schedState = "stopped"
    /\ schedState' = "exited"
    /\ threads' = [i \in ThreadIds |->
          IF threads[i].manual /\ InFlight(threads[i])
          THEN [threads[i] EXCEPT !.pc = "killed"] ELSE threads[i]]
    /\ UNCHANGED <<clientVars, dbVars, jobs, _error_counts, envVars>>

\* The dispatch loop submits job search_<s> to the executor; max_instances=1
\* skips the fire while an instance of the job is still running.
Fire(s) ==
    /\ schedState = "running"
    /\ s \in jobs
    /\ CanSpawn
    /\ \A i \in ThreadIds :
          ~(threads[i].key = s /\ ~threads[i].manual /\ InFlight(threads[i]))
    /\ threads' = Append(threads, NewThread(s, FALSE))
    /\ UNCHANGED <<clientVars, dbVars, jobs, schedState, _error_counts, envVars>>

\* POST /searches/{id}/run: 404 unless the search exists, else a daemon
\* thread running tm.run_search_now(id).
RunNow(s) ==
    /\ schedState # "exited"
    /\ searches[s] # "absent"
    /\ CanSpawn
    /\ threads' = Append(threads, NewThread(s, TRUE))
    /\ UNCHANGED <<clientVars, dbVars, jobs, schedState, _error_counts, envVars>>

\* POST /searches/{id}/toggle
Toggle(s) ==
    /\ searches[s] # "absent"
    /\ LET now == IF searches[s] = "active" THEN "inactive" ELSE "active"
           rm == remove_search_job(jobs, _error_counts, s)
       IN  /\ searches' = [searches EXCEPT ![s] = now]
           /\ IF schedState # "running"
              THEN UNCHANGED <<jobs, _error_counts, streak>>
              ELSE IF now = "active"
              THEN /\ jobs' = add_search_job(jobs, s)
                   /\ UNCHANGED <<_error_counts, streak>>
              ELSE /\ jobs' = rm.jobs
                   /\ _error_counts' = rm.counts
                   /\ streak' = IF s \in jobs THEN [streak EXCEPT ![s] = 0]
                                ELSE streak
    /\ UNCHANGED <<clientVars, settings, products, schedulerLog, schedState,
                   threads, catalog, sent, inflightAtStop>>

\* DELETE /searches/{id}: the job is removed, then the Search row is deleted
\* and with it, by the cascade of its relationships, its Product rows and
\* its SchedulerLog rows.
Delete(s) ==
    /\ searches[s] # "absent"
    /\ LET rm == remove_search_job(jobs, _error_counts, s)
       IN  IF schedState = "running"
           THEN /\ jobs' = rm.jobs
                /\ _error_counts' = rm.counts
                /\ streak' = IF s \in jobs THEN [streak EXCEPT ![s] = 0]
                             ELSE streak
           ELSE UNCHANGED <<jobs, _error_counts, streak>>
    /\ searches' = [searches EXCEPT ![s] = "absent"]
    /\ products' = SelectSeq(products, LAMBDA p : p.search_id # s)
    /\ schedulerLog' = [k \in LogIds |->
          IF schedulerLog[k].search_id = s
          THEN [schedulerLog[k] EXCEPT !.status = "deleted"]
          ELSE schedulerLog[k]]
    /\ UNCHANGED <<clientVars, settings, schedState, threads, catalog, sent,
                   inflightAtStop>>

(***************************************************************************)
(* TaskManager._run_search_job, one action per step another thread can     *)
(* interleave with.  i is the executing thread.                            *)
(***************************************************************************)
SetThread(i, t) == threads' = [threads EXCEPT ![i] = t]

RunningRow(s) ==
    [search_id |-> s, status |-> "running", error_count |-> 0,
     products_new |-> 0, products_notified |-> 0]

\* Whether the lookup of the search at the start of the job raises.
LookupRaises(s, manual) ==
    \/ searches[s] = "absent"
    \/ searches[s] = "inactive" /\ ~manual

\* Create the SchedulerLog row (status running), then look the search up.
OpenRun(i) ==
    LET t == threads[i]
    IN  /\ t.pc = "spawned"
        /\ schedulerLog' = Append(schedulerLog, RunningRow(t.key))
        /\ SetThread(i, [t EXCEPT !.log = Len(schedulerLog) + 1,
                                  !.solo = \A j \in ThreadIds :
                                              j # i => ~InFlight(threads[j]),
                                  !.pc = IF LookupRaises(t.key, t.manual)
                                         THEN "except_init" ELSE "scrape"])
        /\ UNCHANGED <<clientVars, searches, settings, products, jobs,
                       schedState, _error_counts, envVars>>

\* A save loop that adds every fetched item without looking it up.
NewItemsNoLookup(batch, stored) == Reverse(batch)

\* The Product rows the save loop adds to the session: the fetched items,
\* oldest first, that no stored row has the vinted_id of.  The session does
\* not autoflush, so the lookup never sees the rows added earlier in the loop.
NewItems(batch, stored) ==
    SelectSeq(Reverse(batch), LAMBDA v : v \notin stored)

\* What the filter step may leave of the products found: all of them (none
\* rejected, or the filter raised and the run continues unfiltered) or none
\* (all rejected).  A partial rejection leaves a shorter list, which the
\* catalog can answer as well.
Filtered(found) == {found, <<>>}

\* scrape_and_save up to the end of the save loop.
ScrapeFetch(i) ==
    LET t == threads[i]
    IN  /\ t.pc = "scrape"
        /\ \E kind \in FetchKinds :
              \/ /\ kind = "raised"
                 /\ SetThread(i, [t EXCEPT !.fault = "fetch",
                                           !.results = NoResults,
                                           !.pc = "close_success"])
              \/ /\ kind = "blocked"
                 /\ SetThread(i, [t EXCEPT !.fault = "blocked",
                                           !.results = NoResults,
                                           !.pc = "close_success"])
              \/ /\ kind = "other"
                 /\ SetThread(i, [t EXCEPT !.results = NoResults,
                                           !.pc = "close_success"])
              \/ /\ kind = "ok"
                 /\ \E found \in catalog :
                    \E batch \in Filtered(found) :
                       IF batch = <<>>
                       THEN SetThread(i, [t EXCEPT !.results = NoResults,
                                                   !.pc = "close_success"])
                       ELSE SetThread(i, [t EXCEPT
                                !.batch = Reverse(batch),
                                !.new = NewItems(batch, StoredIds),
                                !.pc = "commit"])
        /\ UNCHANGED <<clientVars, dbVars, jobs, schedState, _error_counts,
                       envVars>>

\* An exception that scrape_and_save does not catch (a database error
\* outside its try blocks) reaches the except branch of the job.
ScrapeRaises(i) ==
    LET t == threads[i]
    IN  /\ t.pc = "scrape"
        /\ SetThread(i, [t EXCEPT !.pc = "except_init"])
        /\ UNCHANGED <<clientVars, dbVars, jobs, schedState, _error_counts,
                       envVars>>

\* The unique constraint on products.vinted_id: whether committing rows
\* with these vinted ids raises IntegrityError.
IntegrityError(new, stored) ==
    \/ HasDuplicates(new)
    \/ Range(new) \cap stored # {}

ProductRow(v, s) == [vinted_id |-> v, search_id |-> s, is_notified |-> FALSE]

\* db.commit() of the save step and its except branch.
SaveCommit(i) ==
    LET t == threads[i]
    IN  /\ t.pc = "commit"
        /\ IF IntegrityError(t.new, StoredIds)
           THEN /\ SetThread(i, [t EXCEPT !.new = <<>>, !.fault = "persist",
                                          !.results = NoResults,
                                          !.pc = "close_success"])
                /\ UNCHANGED products
           ELSE /\ products' = products \o
                       [k \in 1..Len(t.new) |-> ProductRow(t.new[k], t.key)]
                /\ SetThread(i, [t EXCEPT
                       !.results = [products_new |-> Len(t.new),
                                    products_notified |-> 0],
                       !.pc = IF Len(t.new) > 0 THEN "notify"
                              ELSE "close_success"])
        /\ UNCHANGED <<clientVars, searches, settings, schedulerLog, jobs,
                       schedState, _error_counts, envVars>>

\* The notification step of a run that saved new: either nothing is attempted
\* (no channel configured, or the step raised before the fan-out) or every
\* new product is; those delivered on some channel are marked notified and
\* counted.  The run goes on to pc next, or to pc short when fewer than all
\* were counted.
NotifyStep(i, next, short) ==
    LET t == threads[i]
        fresh == Range(t.new)
    IN  /\ t.pc = "notify"
        /\ \E attempted \in {{}, fresh} :
           \E delivered \in SUBSET attempted :
              LET n == Cardinality(delivered)
              IN  /\ sent' = [v \in VintedIds |->
                            IF v \in attempted THEN sent[v] + 1 ELSE sent[v]]
                  /\ products' = [k \in 1..Len(products) |->
                        IF products[k].vinted_id \in delivered
                        THEN [products[k] EXCEPT !.is_notified = TRUE]
                        ELSE products[k]]
                  /\ SetThread(i, [t EXCEPT
                        !.new = <<>>,
                        !.results.products_notified = n,
                        !.pc = IF n < Len(t.new) THEN short ELSE next])
        /\ UNCHANGED <<clientVars, searches, settings, schedulerLog, jobs,
                       schedState, _error_counts, catalog, streak,
                       inflightAtStop>>

\* A notification step whose shortfall is raised to the job.
NotifyRaises(i) == NotifyStep(i, "close_success", "except_init")

\* A notification step that fans out over everything the run fetched,
\* stored by it or not.
NotifyWholeBatch(i) ==
    LET t == threads[i]
        fetched == Range(t.batch)
    IN  /\ t.pc = "notify"
        /\ \E delivered \in SUBSET fetched :
              /\ sent' = [v \in VintedIds |->
                            IF v \in fetched THEN sent[v] + 1 ELSE sent[v]]
              /\ products' = [k \in 1..Len(products) |->
                    IF products[k].vinted_id \in delivered
                    THEN [products[k] EXCEPT !.is_notified = TRUE]
                    ELSE products[k]]
              /\ SetThread(i, [t EXCEPT
                    !.new = <<>>,
                    !.results.products_notified = Cardinality(delivered),
                    !.pc = "close_success"])
        /\ UNCHANGED <<clientVars, searches, settings, schedulerLog, jobs,
                       schedState, _error_counts, catalog, streak,
                       inflightAtStop>>

\* scrape_and_save, step 5: its failures are caught and the run goes on to
\* return its results.
Notify(i) == NotifyStep(i, "close_success", "close_success")

Finished(t) ==
    [t EXCEPT !.pc = "done", !.batch = <<>>, !.new = <<>>, !.reg = 0]

\* A success branch that records the results and leaves the counter alone.
CloseSuccessKeepsCounter(i) ==
    LET t == threads[i]
    IN  /\ t.pc = "close_success"
        /\ IF schedulerLog[t.log].status = "deleted"
           THEN /\ SetThread(i, [t EXCEPT !.pc = "except_init"])
                /\ UNCHANGED schedulerLog
           ELSE /\ schedulerLog' = [schedulerLog EXCEPT ![t.log] =
                     [@ EXCEPT !.status = "success",
                               !.error_count = _error_counts[t.key],
                               !.products_new = t.results.products_new,
                               !.products_notified =
                                   t.results.products_notified]]
                /\ SetThread(i, [t EXCEPT !.closed = TRUE,
                                          !.pc = "timestamps"])
        /\ UNCHANGED <<clientVars, searches, settings, products, jobs,
                       schedState, catalog, sent, inflightAtStop,
                       _error_counts, streak>>

\* Record the results as success and reset the counter.  The commit of the
\* log row raises when the row was deleted meanwhile: the UPDATE matches no
\* row, and the reset of the counter is not reached.
CloseSuccess(i) ==
    LET t == threads[i]
    IN  /\ t.pc = "close_success"
        /\ IF schedulerLog[t.log].status = "deleted"
           THEN /\ SetThread(i, [t EXCEPT !.pc = "except_init"])
                /\ UNCHANGED <<schedulerLog, _error_counts, streak>>
           ELSE /\ schedulerLog' = [schedulerLog EXCEPT ![t.log] =
                     [@ EXCEPT !.status = "success", !.error_count = 0,
                               !.products_new = t.results.products_new,
                               !.products_notified =
                                   t.results.products_notified]]
                /\ _error_counts' = [_error_counts EXCEPT ![t.key] = 0]
                /\ streak' = [streak EXCEPT ![t.key] = 0]
                /\ SetThread(i, [t EXCEPT !.closed = TRUE,
                                          !.pc = "timestamps"])
        /\ UNCHANGED <<clientVars, searches, settings, products, jobs,
                       schedState, catalog, sent, inflightAtStop>>

\* search.last_run_at = ...; db.commit(): the UPDATE of a Search row that
\* was deleted meanwhile raises, still inside the try block.
Timestamps(i) ==
    LET t == threads[i]
    IN  /\ t.pc = "timestamps"
        /\ IF searches[t.key] = "absent"
           THEN SetThread(i, [t EXCEPT !.pc = "except_init"])
           ELSE SetThread(i, Finished(t))
        /\ UNCHANGED <<clientVars, dbVars, jobs, schedState, _error_counts,
                       envVars>>

\* except branch: if search_id not in self._error_counts: ... = 0
ExceptInit(i) ==
    LET t == threads[i]
    IN  /\ t.pc = "except_init"
        /\ _error_counts' =
              IF _error_counts[t.key] = Absent
              THEN [_error_counts EXCEPT ![t.key] = 0] ELSE _error_counts
        /\ SetThread(i, [t EXCEPT !.pc = "except_load"])
        /\ UNCHANGED <<clientVars, dbVars, jobs, schedState, envVars>>

\* self._error_counts[search_id] += 1, the load: a KeyError if the key was
\* removed meanwhile; it leaves the handler through finally.
ExceptLoad(i) ==
    LET t == threads[i]
    IN  /\ t.pc = "except_load"
        /\ IF _error_counts[t.key] = Absent
           THEN SetThread(i, [t EXCEPT !.pc = "crashed"])
           ELSE SetThread(i, [t EXCEPT !.reg = _error_counts[t.key],
                                       !.pc = "except_store"])
        /\ UNCHANGED <<clientVars, dbVars, jobs, schedState, _error_counts,
                       envVars>>

\* A store that writes the map back with its own key only.
ExceptStoreWholeMap(i) ==
    LET t == threads[i]
    IN  /\ t.pc = "except_store"
        /\ _error_counts' = [s \in SearchIds |->
                                IF s = t.key THEN t.reg + 1 ELSE Absent]
        /\ streak' = [streak EXCEPT ![t.key] = @ + 1]
        /\ IF schedulerLog[t.log].status = "deleted"
           THEN /\ SetThread(i, [t EXCEPT !.pos = streak[t.key] + 1,
                                          !.pc = "crashed"])
                /\ UNCHANGED schedulerLog
           ELSE /\ schedulerLog' = [schedulerLog EXCEPT ![t.log] =
                     [@ EXCEPT !.status = "error",
                               !.error_count = t.reg + 1]]
                /\ SetThread(i, [t EXCEPT !.pos = streak[t.key] + 1,
                                          !.pc = "alert"])
        /\ UNCHANGED <<clientVars, searches, settings, products, jobs,
                       schedState, catalog, sent, inflightAtStop>>

\* The store of the += and the update of the log row with the error.  The
\* commit raises out of the handler when the row was deleted meanwhile.
ExceptStore(i) ==
    LET t == threads[i]
    IN  /\ t.pc = "except_store"
        /\ _error_counts' = [_error_counts EXCEPT ![t.key] = t.reg + 1]
        /\ streak' = [streak EXCEPT ![t.key] = @ + 1]
        /\ IF schedulerLog[t.log].status = "deleted"
           THEN /\ SetThread(i, [t EXCEPT !.pos = streak[t.key] + 1,
                                          !.pc = "crashed"])
                /\ UNCHANGED schedulerLog
           ELSE /\ schedulerLog' = [schedulerLog EXCEPT ![t.log] =
                     [@ EXCEPT !.status = "error",
                               !.error_count = t.reg + 1]]
                /\ SetThread(i, [t EXCEPT !.pos = streak[t.key] + 1,
                                          !.pc = "alert"])
        /\ UNCHANGED <<clientVars, searches, settings, products, jobs,
                       schedState, catalog, sent, inflightAtStop>>

\* self._error_counts.get(search_id, 0)
CountOf(s) == IF _error_counts[s] = Absent THEN 0 ELSE _error_counts[s]

\* Whether _check_and_notify_error reaches the send step.
ReachesSend(s) ==
    /\ settings.enabled
    /\ CountOf(s) >= Threshold
    /\ searches[s] # "absent"

\* _check_and_notify_error, then the job returns.
Alert(i) ==
    LET t == threads[i]
    IN  /\ t.pc = "alert"
        /\ SetThread(i, [Finished(t) EXCEPT !.alerted = ReachesSend(t.key)])
        /\ UNCHANGED <<clientVars, dbVars, jobs, schedState, _error_counts,
                       envVars>>

\* The steps of a run in which nothing raises out of scrape_and_save.
Pipeline ==
    \/ \E i \in ThreadIds : OpenRun(i)
    \/ \E i \in ThreadIds : ScrapeFetch(i)
    \/ \E i \in ThreadIds : SaveCommit(i)
    \/ \E i \in ThreadIds : Notify(i)
    \/ \E i \in ThreadIds : CloseSuccess(i)
    \/ \E i \in ThreadIds : Timestamps(i)

\* The steps of the except branch of the job, and what leads there from
\* inside the scraper.
Failure ==
    \/ \E i \in ThreadIds : ScrapeRaises(i)
    \/ \E i \in ThreadIds : ExceptInit(i)
    \/ \E i \in ThreadIds : ExceptLoad(i)
    \/ \E i \in ThreadIds : ExceptStore(i)
    \/ \E i \in ThreadIds : Alert(i)

Init ==
    /\ IdleClient
    /\ IdleTools
    /\ searches = [s \in SearchIds |-> IF s = 1 THEN "active" ELSE "absent"]
    /\ settings = [enabled |-> TRUE, threshold |-> 3]
    /\ products = <<>>
    /\ schedulerLog = <<>>
    /\ jobs = {}
    /\ schedState = "init"
    /\ _error_counts = [s \in SearchIds |-> Absent]
    /\ threads = <<>>
    /\ catalog = {<<>>, <<1>>}
    /\ streak = [s \in SearchIds |-> 0]
    /\ sent = [v \in VintedIds |-> 0]
    /\ inflightAtStop = {}

\* The scheduler with the administrative API acting on the searches, for
\* up to MaxShortRuns executions.
Next ==
    \/ Start
    \/ \E s \in SearchIds : Len(threads) < MaxShortRuns /\ Fire(s)
    \/ \E s \in SearchIds : Len(threads) < MaxShortRuns /\ RunNow(s)
    \/ \E s \in SearchIds : Toggle(s)
    \/ \E s \in SearchIds : Delete(s)
    \/ Pipeline
    \/ Failure

Spec == Init /\ [][Next]_vars

\* The scheduler being started and stopped while executions run.
NextStop ==
    \/ Start
    \/ StopBegin
    \/ StopReturn
    \/ Exit
    \/ \E s \in SearchIds : Len(threads) < MaxShortRuns /\ Fire(s)
    \/ \E s \in SearchIds : Len(threads) < MaxShortRuns /\ RunNow(s)
    \/ Pipeline
    \/ Failure

SpecStop == Init /\ [][NextStop]_vars

\* Up to MaxRuns manual runs of a search that may be deleted meanwhile, the
\* scheduler not started: long enough for a streak to reach the threshold.
NextStreak ==
    \/ \E s \in SearchIds : RunNow(s)
    \/ \E s \in SearchIds : Delete(s)
    \/ Pipeline
    \/ Failure

SpecStreak == Init /\ [][NextStreak]_vars

\* Two searches whose catalog answers share items, run by hand, with a
\* database that raises nothing but the unique constraint.
InitPersist ==
    /\ IdleClient
    /\ IdleTools
    /\ searches = [s \in SearchIds |-> "active"]
    /\ settings = [enabled |-> TRUE, threshold |-> 3]
    /\ products = <<>>
    /\ schedulerLog = <<>>
    /\ jobs = {}
    /\ schedState = "init"
    /\ _error_counts = [s \in SearchIds |-> Absent]
    /\ threads = <<>>
    /\ catalog = Batches
    /\ streak = [s \in SearchIds |-> 0]
    /\ sent = [v \in VintedIds |-> 0]
    /\ inflightAtStop = {}

NextPersist ==
    \/ \E s \in SearchIds : Len(threads) < MaxShortRuns /\ RunNow(s)
    \/ Pipeline

SpecPersist == InitPersist /\ [][NextPersist]_vars

\* A notification-aging job that sets the flag of every old row from the
\* negation of what it reads.
AgingJobFlips ==
    /\ \A k \in LogIds : schedulerLog[k].search_id # 0
    /\ \E old \in SUBSET (1..Len(products)) :
          products' = [k \in 1..Len(products) |->
                IF k \in old
                THEN [products[k] EXCEPT !.is_notified = ~@]
                ELSE products[k]]
    /\ schedulerLog' = Append(schedulerLog,
          [MaintenanceRow("data_mark_notified_periodic")
              EXCEPT !.status = "success"])
    /\ UNCHANGED <<clientVars, searches, settings, schedVars, envVars>>

\* The notification-aging job, run once between the steps of the executions.
\* The engine keeps no clock: which stored rows are older than the cutoff
\* at the time of the job is any set of them.  The job's row is opened and
\* closed as success around the one UPDATE.
AgingJob ==
    /\ \A k \in LogIds : schedulerLog[k].search_id # 0
    /\ \E old \in SUBSET (1..Len(products)) :
          products' = [k \in 1..Len(products) |->
                IF ~products[k].is_notified /\ k \in old
                THEN [products[k] EXCEPT !.is_notified = TRUE]
                ELSE products[k]]
    /\ schedulerLog' = Append(schedulerLog,
          [MaintenanceRow("data_mark_notified_periodic")
              EXCEPT !.status = "success"])
    /\ UNCHANGED <<clientVars, searches, settings, schedVars, envVars>>

\* Manual runs of two searches with the same catalog answer, with the
\* aging job.
InitAging ==
    /\ IdleClient
    /\ IdleTools
    /\ searches = [s \in SearchIds |-> "active"]
    /\ settings = [enabled |-> TRUE, threshold |-> 3]
    /\ products = <<>>
    /\ schedulerLog = <<>>
    /\ jobs = {}
    /\ schedState = "init"
    /\ _error_counts = [s \in SearchIds |-> Absent]
    /\ threads = <<>>
    /\ catalog = {<<1, 2>>}
    /\ streak = [s \in SearchIds |-> 0]
    /\ sent = [v \in VintedIds |-> 0]
    /\ inflightAtStop = {}

NextAging ==
    \/ \E s \in SearchIds : Len(threads) < MaxShortRuns /\ RunNow(s)
    \/ Pipeline
    \/ AgingJob

SpecAging == InitAging /\ [][NextAging]_vars

\* Two searches with empty catalog answers, fired by the scheduler while
\* the API switches them off and on: their executions complete, as success or as error, in any interleaving.
InitCounters ==
    /\ IdleClient
    /\ IdleTools
    /\ searches = [s \in SearchIds |-> "active"]
    /\ settings = [enabled |-> TRUE, threshold |-> 3]
    /\ products = <<>>
    /\ schedulerLog = <<>>
    /\ jobs = {}
    /\ schedState = "init"
    /\ _error_counts = [s \in SearchIds |-> Absent]
    /\ threads = <<>>
    /\ catalog = {<<>>}
    /\ streak = [s \in SearchIds |-> 0]
    /\ sent = [v \in VintedIds |-> 0]
    /\ inflightAtStop = {}

NextCounters ==
    \/ Start
    \/ \E s \in SearchIds : Fire(s)
    \/ \E s \in SearchIds : Toggle(s)
    \/ \E i \in ThreadIds : OpenRun(i)
    \/ \E i \in ThreadIds : ScrapeFetch(i)
    \/ \E i \in ThreadIds : CloseSuccess(i)
    \/ \E i \in ThreadIds : Timestamps(i)
    \/ Failure

SpecCounters == InitCounters /\ [][NextCounters]_vars

(***************************************************************************)
(* The HTTP client on its own: any configuration, any number of get()      *)
(* calls on one requester.                                                 *)
(***************************************************************************)
InitGet ==
    /\ requester \in {NewRequester(c) : c \in Configs}
    /\ IdleTools
    /\ IdleEngine

GetCall ==
    /\ \E outs \in OutcomeSeqs : requester' = get(requester, outs)
    /\ UNCHANGED <<filtering, notifying, enriching, scheduler, alerting, sweeping, running, sending, dbVars, schedVars, envVars>>

NextGet == GetCall

SpecGet == InitGet /\ [][NextGet]_vars

(***************************************************************************)
(* The identity and proxy selection on its own: one client, any            *)
(* configuration, header updates and proxy configurations in any order.    *)
(***************************************************************************)
MaxCalls == 2 * MaxPool + 2

NextIdentity ==
    /\ Len(requester.hist) < MaxCalls
    /\ requester' = _update_headers(requester)
    /\ UNCHANGED <<filtering, notifying, enriching, scheduler, alerting, sweeping, running, sending, dbVars, schedVars, envVars>>

NextProxy ==
    /\ Len(requester.hist) < MaxCalls
    /\ requester' = _configure_proxy(requester)
    /\ UNCHANGED <<filtering, notifying, enriching, scheduler, alerting, sweeping, running, sending, dbVars, schedVars, envVars>>

NextRotate ==
    \/ NextIdentity
    \/ NextProxy

SpecRotate == InitGet /\ [][NextRotate]_vars

(***************************************************************************)
(* The configuration on its own with reloads: identities and proxies are   *)
(* taken in any order while the settings change and are loaded again.      *)
(* result = "raised" records a call that raised IndexError.                *)
(***************************************************************************)
MaxReloadCalls == 4

ReloadIdentity ==
    /\ requester.result # "raised"
    /\ Len(requester.hist) < MaxReloadCalls
    /\ requester' = IF UserAgentIndexError(requester.cfg)
                    THEN [requester EXCEPT !.result = "raised"]
                    ELSE _update_headers(requester)
    /\ UNCHANGED <<filtering, notifying, enriching, scheduler, alerting, sweeping, running, sending, dbVars, schedVars, envVars>>

ReloadProxy ==
    /\ requester.result # "raised"
    /\ Len(requester.hist) < MaxReloadCalls
    /\ requester' = IF ProxyIndexError(requester.cfg)
                    THEN [requester EXCEPT !.result = "raised"]
                    ELSE _configure_proxy(requester)
    /\ UNCHANGED <<filtering, notifying, enriching, scheduler, alerting, sweeping, running, sending, dbVars, schedVars, envVars>>

Reload ==
    /\ requester.result # "raised"
    /\ \E row \in ReloadRows :
          requester' = [requester EXCEPT !.cfg = reload(@, row)]
    /\ UNCHANGED <<filtering, notifying, enriching, scheduler, alerting, sweeping, running, sending, dbVars, schedVars, envVars>>

NextReload ==
    \/ ReloadIdentity
    \/ ReloadProxy
    \/ Reload

SpecReload == InitGet /\ [][NextReload]_vars

(***************************************************************************)
(* The filter on its own: any filter settings, any search or none, any     *)
(* short list of products, filtered and then filtered again.               *)
(***************************************************************************)
InitFilter ==
    /\ \E row \in SettingsRows, search \in SearchContexts,
          items \in ItemLists :
            filtering = NewFilterManager(row, search, items)
    /\ IdleClient
    /\ notifying = IdleNotifier
    /\ enriching = IdleEnrichment
    /\ scheduler = NewScheduler
    /\ alerting = NoAlert
    /\ sweeping = NoSweep
    /\ running = NoRun
    /\ sending = NoSend
    /\ IdleEngine

FilterAll ==
    /\ filtering.stage = "loaded"
    /\ filtering' = [filtering EXCEPT
          !.out = filter_products(filtering.cfg, filtering.items,
                                  filtering.search),
          !.stage = "filtered"]
    /\ UNCHANGED <<requester, notifying, enriching, scheduler, alerting, sweeping, running, sending, dbVars, schedVars, envVars>>

FilterAgain ==
    /\ filtering.stage = "filtered"
    /\ filtering' = [filtering EXCEPT
          !.again = filter_products(filtering.cfg, filtering.out.filtered,
                                    filtering.search),
          !.stage = "refiltered"]
    /\ UNCHANGED <<requester, notifying, enriching, scheduler, alerting, sweeping, running, sending, dbVars, schedVars, envVars>>

NextFilter ==
    \/ FilterAll
    \/ FilterAgain

SpecFilter == InitFilter /\ [][NextFilter]_vars

(***************************************************************************)
(* notify_product on its own: any set of configured channels, any outcome  *)
(* of each send.                                                           *)
(***************************************************************************)
InitNotify ==
    /\ \E active \in SUBSET ChannelSet, flag \in BOOLEAN :
          notifying = NewNotificationManager(active, flag)
    /\ IdleClient
    /\ filtering = IdleFilter
    /\ enriching = IdleEnrichment
    /\ scheduler = NewScheduler
    /\ alerting = NoAlert
    /\ sweeping = NoSweep
    /\ running = NoRun
    /\ sending = NoSend
    /\ IdleEngine

SendStep ==
    /\ notifying.pc \in ChannelSet
    /\ \E o \in SendOutcomes :
          notifying' = SendOn(notifying, notifying.pc, o)
    /\ UNCHANGED <<requester, filtering, enriching, scheduler, alerting, sweeping, running, sending, dbVars, schedVars, envVars>>

MarkStep ==
    /\ notifying.pc = "mark"
    /\ notifying' = Mark(notifying)
    /\ UNCHANGED <<requester, filtering, enriching, scheduler, alerting, sweeping, running, sending, dbVars, schedVars, envVars>>

NextNotify ==
    \/ SendStep
    \/ MarkStep

SpecNotify == InitNotify /\ [][NextNotify]_vars

(***************************************************************************)
(* The seller step and the save step of one run on their own: any table    *)
(* sellers, any list of sellers to process, any outcome of each fetch.     *)
(***************************************************************************)
InitSellers ==
    /\ \E sellers \in [SellerVids -> {NoSeller} \cup
                          UNION {StoredSellers(v) : v \in SellerVids}],
          S \in SUBSET SellerVids :
          /\ \A v \in SellerVids : sellers[v].present => sellers[v].id = v
          /\ \E list \in Orders(S) :
                enriching = NewEnrichment(sellers, list)
    /\ IdleClient
    /\ filtering = IdleFilter
    /\ notifying = IdleNotifier
    /\ scheduler = NewScheduler
    /\ alerting = NoAlert
    /\ sweeping = NoSweep
    /\ running = NoRun
    /\ sending = NoSend
    /\ IdleEngine

SellerStep ==
    /\ enriching.pc = "sellers"
    /\ enriching.todo # <<>>
    /\ \E o \in SellerOutcomes :
          enriching' = enrich_seller(enriching, Head(enriching.todo), o)
    /\ UNCHANGED <<requester, filtering, notifying, scheduler, alerting, sweeping, running, sending, dbVars, schedVars,
                   envVars>>

SellersDone ==
    /\ enriching.pc = "sellers"
    /\ enriching.todo = <<>>
    /\ enriching' = [enriching EXCEPT !.pc = "save"]
    /\ UNCHANGED <<requester, filtering, notifying, scheduler, alerting, sweeping, running, sending, dbVars, schedVars,
                   envVars>>

\* The save loop and its commit: one Product per accepted new item.
SaveStep ==
    /\ enriching.pc = "save"
    /\ enriching' = [enriching EXCEPT
          !.products = [k \in 1..Len(enriching.items) |->
                          [seller_vinted_id |-> enriching.items[k],
                           seller_id |-> seller_link(enriching,
                                                     enriching.items[k])]],
          !.pc = "saved"]
    /\ UNCHANGED <<requester, filtering, notifying, scheduler, alerting, sweeping, running, sending, dbVars, schedVars,
                   envVars>>

NextSellers ==
    \/ SellerStep
    \/ SellersDone
    \/ SaveStep

SpecSellers == InitSellers /\ [][NextSellers]_vars

\* TaskManager on the detailed job store: the scheduler is started and
\* stopped, jobs are added, removed, paused and resumed, time passes, due
\* jobs are dispatched and their executions end.
InitJobs ==
    /\ scheduler = NewScheduler
    /\ alerting = NoAlert
    /\ sweeping = NoSweep
    /\ running = NoRun
    /\ sending = NoSend
    /\ IdleClient
    /\ filtering = IdleFilter
    /\ notifying = IdleNotifier
    /\ enriching = IdleEnrichment
    /\ IdleEngine

\* last, upsert and status hold what the step just taken dispatched, added
\* or reported.
Settled(sch) ==
    [sch EXCEPT !.last = NoDispatch, !.upsert = NoUpsert, !.status = NoStatus]

JobsUnchanged ==
    UNCHANGED <<requester, filtering, notifying, enriching, alerting,
                sweeping, running, sending, dbVars, schedVars, envVars>>

\* start(): load_all_searches(), _add_maintenance_jobs(), scheduler.start().
StartScheduler ==
    /\ ~scheduler.running
    /\ \E active \in [JobNumbers -> {0} \cup IntervalMinutes] :
          scheduler' = Settled(
              [_add_maintenance_jobs(load_all_searches(scheduler, active, 1))
                  EXCEPT !.running = TRUE])
    /\ JobsUnchanged

\* stop(): shutdown(wait=True) returns when no execution is left; the
\* memory job store is emptied.
StopScheduler ==
    /\ scheduler.running
    /\ \A id \in JobIds : scheduler.instances[id] = 0
    /\ scheduler' = Settled([scheduler EXCEPT !.running = FALSE,
                                              !.jobs = <<>>])
    /\ JobsUnchanged

AddJob ==
    /\ scheduler.running
    /\ \E s \in JobNumbers, minutes \in IntervalMinutes :
          scheduler' =
              [Settled(add_search_job_at(scheduler, s, minutes)) EXCEPT
                  !.upsert = [s |-> s, minutes |-> minutes,
                              replaced |-> get_job(scheduler.jobs,
                                                   search_job_id(s))]]
    /\ JobsUnchanged

RemoveJob ==
    /\ scheduler.running
    /\ \E s \in JobNumbers :
          scheduler' = Settled(remove_search_job_at(scheduler, s))
    /\ JobsUnchanged

PauseJob ==
    /\ scheduler.running
    /\ \E s \in JobNumbers :
          scheduler' = Settled(pause_search_job(scheduler, s))
    /\ JobsUnchanged

ResumeJob ==
    /\ scheduler.running
    /\ \E s \in JobNumbers :
          scheduler' = Settled(resume_search_job(scheduler, s))
    /\ JobsUnchanged

Tick ==
    /\ scheduler.now < MaxClock
    /\ scheduler' = Settled([scheduler EXCEPT !.now = @ + 1])
    /\ JobsUnchanged

\* _process_jobs for one due job: its run times are collected and
\* coalesced, the executor takes them unless max_instances is reached, and
\* the job moves to the fire time after the last run time.
Dispatch ==
    /\ scheduler.running
    /\ \E k \in 1..Len(scheduler.jobs) :
          LET job       == scheduler.jobs[k]
              now       == scheduler.now
              all       == _get_run_times(job, job.next_run_time, now)
              run_times == Coalesced(all)
              submitted == scheduler.instances[job.id] < max_instances
              calls     == IF submitted THEN Calls(run_times, now) ELSE 0
              next      == get_next_fire_time(job, run_times[Len(run_times)],
                                              now)
          IN  /\ all # <<>>
              /\ scheduler' = [scheduler EXCEPT
                    !.jobs = insert(remove_job(scheduler.jobs, job.id),
                                    [job EXCEPT !.next_run_time = next]),
                    !.instances[job.id] = IF submitted THEN @ + 1 ELSE @,
                    !.last = [due |-> Len(all), calls |-> calls,
                              backlog |-> next <= now],
                    !.upsert = NoUpsert,
                    !.status = NoStatus]
    /\ JobsUnchanged

\* An execution returns and the executor releases its instance.
Finish ==
    /\ \E id \in JobIds :
          /\ scheduler.instances[id] > 0
          /\ scheduler' = Settled([scheduler EXCEPT !.instances[id] = @ - 1])
    /\ JobsUnchanged

GetStatus ==
    /\ scheduler' = [scheduler EXCEPT !.status = get_status(scheduler),
                                      !.last = NoDispatch,
                                      !.upsert = NoUpsert]
    /\ JobsUnchanged

NextJobs ==
    \/ StartScheduler
    \/ StopScheduler
    \/ AddJob
    \/ RemoveJob
    \/ PauseJob
    \/ ResumeJob
    \/ Tick
    \/ Dispatch
    \/ Finish
    \/ GetStatus

SpecJobs == InitJobs /\ [][NextJobs]_vars

\* One run that has failed: the except branch of _run_search_job counts the
\* failure and closes the row, then the alert is checked and sent.
InitAlert ==
    /\ alerting = NoAlert
    /\ \E c \in {Absent, 0, 1, 2} :
          _error_counts = [s \in SearchIds |-> IF s = 1 THEN c ELSE Absent]
    /\ settings \in AlertSettings
    /\ \E st \in {"active", "inactive", "absent"} :
          searches = [s \in SearchIds |-> IF s = 1 THEN st ELSE "absent"]
    /\ schedulerLog = <<RunningRow(1)>>
    /\ IdleClient
    /\ filtering = IdleFilter
    /\ notifying = IdleNotifier
    /\ enriching = IdleEnrichment
    /\ scheduler = NewScheduler
    /\ sweeping = NoSweep
    /\ running = NoRun
    /\ sending = NoSend
    /\ products = <<>>
    /\ jobs = {}
    /\ schedState = "running"
    /\ threads = <<>>
    /\ catalog = {}
    /\ streak = [s \in SearchIds |-> 0]
    /\ sent = [v \in VintedIds |-> 0]
    /\ inflightAtStop = {}

AlertUnchanged ==
    UNCHANGED <<requester, filtering, notifying, enriching, scheduler,
                sweeping, running, sending, searches, settings, products, jobs, schedState, threads,
                envVars>>

\* The except branch up to the commit of the row.
FailRun ==
    /\ alerting.pc = "idle"
    /\ LET count == CountOf(alerting.key) + 1
       IN  /\ _error_counts' = [_error_counts EXCEPT ![alerting.key] = count]
           /\ schedulerLog' = [schedulerLog EXCEPT ![alerting.log] =
                 [@ EXCEPT !.status = "error", !.error_count = count]]
           /\ alerting' = [alerting EXCEPT !.count = count, !.pc = "check"]
    /\ AlertUnchanged

\* The lookups of the alert: the Settings row, the threshold, the search,
\* the NotificationManager.  Any of them raising ends the alert in its
\* outer or inner except.
AlertCheck ==
    /\ alerting.pc = "check"
    /\ \E o \in {"ok", "lookup_raises", "manager_raises"} :
          alerting' =
              IF o = "lookup_raises"
              THEN [alerting EXCEPT !.fault = "lookup", !.pc = "returned"]
              ELSE IF ~ReachesSend(alerting.key)
              THEN [alerting EXCEPT !.pc = "returned"]
              ELSE IF o = "manager_raises"
              THEN [alerting EXCEPT !.fault = "manager", !.pc = "returned"]
              ELSE [alerting EXCEPT !.pc = "telegram"]
    /\ UNCHANGED <<_error_counts, schedulerLog>>
    /\ AlertUnchanged

AlertChannel ==
    /\ alerting.pc \in {"telegram", "discord", "webhook"}
    /\ LET ch == alerting.pc
       IN  IF ch \in settings.channels
           THEN \E o \in AlertOutcomes(ch) :
                   alerting' = AlertSend(alerting, ch, o)
           ELSE alerting' = [alerting EXCEPT !.pc = AfterAlertChannel(ch)]
    /\ UNCHANGED <<_error_counts, schedulerLog>>
    /\ AlertUnchanged

NextAlert ==
    \/ FailRun
    \/ AlertCheck
    \/ AlertChannel

SpecAlert == InitAlert /\ [][NextAlert]_vars

\* The maintenance jobs run one after another over a store of products.
InitMaintenance ==
    /\ sweeping = NoSweep
    /\ running = NoRun
    /\ sending = NoSend
    /\ settings \in SweepSettings
    /\ products \in UNION {[1..n -> StoredProducts] : n \in 0..MaxStored}
    /\ schedulerLog = <<>>
    /\ _error_counts = [s \in SearchIds |-> Absent]
    /\ searches = [s \in SearchIds |-> "absent"]
    /\ IdleClient
    /\ filtering = IdleFilter
    /\ notifying = IdleNotifier
    /\ enriching = IdleEnrichment
    /\ scheduler = NewScheduler
    /\ alerting = NoAlert
    /\ jobs = {}
    /\ schedState = "running"
    /\ threads = <<>>
    /\ catalog = {}
    /\ streak = [s \in SearchIds |-> 0]
    /\ sent = [v \in VintedIds |-> 0]
    /\ inflightAtStop = {}

SweepUnchanged ==
    UNCHANGED <<requester, filtering, notifying, enriching, scheduler,
                alerting, running, sending, searches, settings, schedVars, envVars>>

\* The job starts: its SchedulerLog row is added with status running.
SweepOpen ==
    /\ sweeping.pc \in {"idle", "done"}
    /\ sweeping.runs < MaxSweeps
    /\ \E job \in MaintenanceJobs :
          sweeping' = [job |-> job, pc |-> "body",
                       log |-> Len(schedulerLog) + 1,
                       runs |-> sweeping.runs + 1, count |-> 0]
    /\ schedulerLog' = Append(schedulerLog, MaintenanceRow(sweeping'.job))
    /\ UNCHANGED products
    /\ SweepUnchanged

\* The try block runs through: the sweep is applied and the row is closed
\* as success.
SweepSucceeds ==
    /\ sweeping.pc = "body"
    /\ products' = IF sweeping.job = "data_cleanup_daily"
                   THEN _cleanup_old_products(settings, products)
                   ELSE _mark_old_products_as_notified(settings, products)
    /\ schedulerLog' = [schedulerLog EXCEPT ![sweeping.log].status = "success"]
    /\ sweeping' = [sweeping EXCEPT
          !.pc = "done",
          !.count = IF sweeping.job = "data_cleanup_daily"
                    THEN Len(products) - Len(products')
                    ELSE Cardinality({k \in 1..Len(products) :
                            products'[k] # products[k]})]
    /\ SweepUnchanged

\* A query or a commit of the try block raises: the except branch closes
\* the row as error.
SweepFails ==
    /\ sweeping.pc = "body"
    /\ schedulerLog' = [schedulerLog EXCEPT ![sweeping.log].status = "error"]
    /\ sweeping' = [sweeping EXCEPT !.pc = "done"]
    /\ UNCHANGED products
    /\ SweepUnchanged

NextMaintenance ==
    \/ SweepOpen
    \/ SweepSucceeds
    \/ SweepFails

SpecMaintenance == InitMaintenance /\ [][NextMaintenance]_vars

\* One notification sent on one channel, for every channel and every pair
\* of answers.
InitSend ==
    /\ \E ch \in ChannelSet, outs \in [1..2 -> Responses] :
          sending = NewSend(ch, outs)
    /\ IdleClient
    /\ filtering = IdleFilter
    /\ notifying = IdleNotifier
    /\ enriching = IdleEnrichment
    /\ scheduler = NewScheduler
    /\ alerting = NoAlert
    /\ sweeping = NoSweep
    /\ running = NoRun
    /\ IdleEngine

SendUnchanged ==
    UNCHANGED <<requester, filtering, notifying, enriching, scheduler,
                alerting, sweeping, running, dbVars, schedVars, envVars>>

SendFirst ==
    /\ sending.pc = "send"
    /\ sending' = send_first(sending)
    /\ SendUnchanged

SendRetry ==
    /\ sending.pc = "retry"
    /\ sending' = send_retry(sending)
    /\ SendUnchanged

NextSend ==
    \/ SendFirst
    \/ SendRetry

SpecSend == InitSend /\ [][NextSend]_vars

\* One run for every catalog answer of up to MaxFetched items, every
\* max_products and every set of vinted ids stored beforehand.
InitRun ==
    /\ \E fetched \in UNION {[1..n -> RunItems] : n \in 0..MaxFetched},
          max \in MaxProductsValues, stored \in SUBSET VintedIds :
            running = NewRun(fetched, max, stored)
    /\ IdleClient
    /\ filtering = IdleFilter
    /\ notifying = IdleNotifier
    /\ enriching = IdleEnrichment
    /\ scheduler = NewScheduler
    /\ alerting = NoAlert
    /\ sweeping = NoSweep
    /\ sending = NoSend
    /\ IdleEngine

RunUnchanged ==
    UNCHANGED <<requester, filtering, notifying, enriching, scheduler,
                alerting, sweeping, sending, dbVars, schedVars, envVars>>

RunFetch ==
    /\ running.pc = "fetch"
    /\ running' = run_fetch(running)
    /\ RunUnchanged

RunFetchRaises ==
    /\ running.pc = "fetch"
    /\ running' = run_fetch_raises(running)
    /\ RunUnchanged

RunFilter ==
    /\ running.pc = "filter"
    /\ running' = run_filter(running)
    /\ RunUnchanged

RunFilterRaises ==
    /\ running.pc = "filter"
    /\ running' = run_filter_raises(running)
    /\ RunUnchanged

RunSave ==
    /\ running.pc = "save"
    /\ running' = run_save(running)
    /\ RunUnchanged

RunNotify ==
    /\ running.pc = "notify"
    /\ \E delivered \in {<<>>} \cup [1..Len(running.saved) -> 0..2] :
          running' = run_notify(running, delivered)
    /\ RunUnchanged

RunClose ==
    /\ running.pc = "close"
    /\ running' = run_close(running)
    /\ RunUnchanged

NextRun ==
    \/ RunFetch
    \/ RunFetchRaises
    \/ RunFilter
    \/ RunFilterRaises
    \/ RunSave
    \/ RunNotify
    \/ RunClose

SpecRun == InitRun /\ [][NextRun]_vars

(***************************************************************************)
(* Properties.                                                             *)
(***************************************************************************)
Terminal(row) == row.status \in {"success", "error"}

AfterSave(t) == t.pc \in {"notify", "close_success", "timestamps"}

\* C1: no two SchedulerLog rows of the same search are running at the same
\* time, i.e. at most one execution per search key is in flight, scheduled
\* or manual.
C1_SingleFlight ==
    \A a, b \in LogIds :
        (a # b /\ schedulerLog[a].search_id = schedulerLog[b].search_id)
            => ~(schedulerLog[a].status = "running"
                 /\ schedulerLog[b].status = "running")

\* C2: whenever every started run of a search has completed, the in-memory
\* counter of the search equals the number of its runs that have failed
\* since its last run recorded as success (and so is never negative).
C2_CounterIsStreak ==
    \A s \in SearchIds :
        (\A i \in ThreadIds : threads[i].key = s => ~Executing(threads[i]))
            => CountOf(s) = streak[s]

\* C3: a run whose catalog fetch raised, or whose save of the new items
\* raised, ends with its SchedulerLog row closed as error and the counter
\* incremented.
C3_FailureReachesScheduler ==
    \A i \in ThreadIds :
        (/\ threads[i].pc = "done"
         /\ threads[i].fault \in {"fetch", "persist"}
         /\ schedulerLog[threads[i].log].status # "deleted")
            => /\ schedulerLog[threads[i].log].status = "error"
               /\ schedulerLog[threads[i].log].error_count >= 1

\* C4: with alerting enabled and threshold 3, a failed run triggers an alert
\* attempt exactly when it is the 3rd or a later failure of its streak.
C4_AlertFromThirdFailure ==
    (settings.enabled /\ Threshold = 3) =>
        \A i \in ThreadIds :
            (threads[i].pc = "done" /\ threads[i].pos >= 1)
                => (threads[i].alerted <=> threads[i].pos >= 3)

\* C5: an execution that has ended, in whatever way, has left its
\* SchedulerLog row, if the row still exists, in a terminal status: no row
\* stays running for ever.
C5_EndedRunIsClosed ==
    \A i \in ThreadIds :
        (threads[i].log # 0 /\ ~InFlight(threads[i]))
            => schedulerLog[threads[i].log].status # "running"

\* C6: once a SchedulerLog row has a terminal status, no step gives the row
\* another status for as long as it exists, and an execution that has
\* recorded itself as success does not afterwards count itself as a failure.
C6_TerminalStatusOnce ==
    [][/\ \A k \in LogIds :
             Terminal(schedulerLog[k])
                 => schedulerLog'[k].status
                        \in {schedulerLog[k].status, "deleted"}
       /\ \A i \in ThreadIds :
             threads[i].closed => threads'[i].pos = threads[i].pos]_vars

\* C7: when stop() has returned, every execution that was in flight when it
\* was called has closed its SchedulerLog row.
C7_StopWaitsForRuns ==
    schedState = "stopped" =>
        \A i \in inflightAtStop : Terminal(schedulerLog[threads[i].log])

\* Execution i began after every other execution had ended.
Successive(i) ==
    /\ threads[i].solo
    /\ \A j \in ThreadIds :
          j # i => (~InFlight(threads[j]) /\ threads[j].log < threads[i].log)

RECURSIVE SumNew(_)
SumNew(k) == IF k = 0 THEN 0 ELSE schedulerLog[k].products_new + SumNew(k - 1)

\* C8: a vinted_id has at most one Product row; a run that fetches an item
\* stored by an earlier run skips it, so across all runs no row is counted
\* as new twice and no item is notified twice.
C8_DedupAcrossRuns ==
    /\ \A a, b \in 1..Len(products) :
          a # b => products[a].vinted_id # products[b].vinted_id
    /\ SumNew(Len(schedulerLog)) <= Len(products)
    /\ \A v \in VintedIds : sent[v] <= 1
    /\ \A i \in ThreadIds :
          (threads[i].pc = "commit" /\ Successive(i))
              => Range(threads[i].new) \cap StoredIds = {}

\* A second run at its commit with nothing to insert, because the only item
\* it fetched was stored, counted and notified by a run that has ended.
C8_Witness ==
    \E i, j \in ThreadIds :
        /\ threads[j].pc = "done"
        /\ schedulerLog[threads[j].log].status = "success"
        /\ schedulerLog[threads[j].log].products_new = 1
        /\ threads[i].pc = "commit"
        /\ Successive(i)
        /\ threads[i].new = <<>>
        /\ Len(threads[i].batch) = 1
        /\ sent[threads[i].batch[1]] = 1

\* C9: when executions of different searches save concurrently, every
\* vinted_id keeps a single Product row and every item an execution fetched
\* is stored once its save is over, the execution that lost the race for a
\* vinted_id included.
C9_LoserKeepsBatch ==
    /\ \A a, b \in 1..Len(products) :
          a # b => products[a].vinted_id # products[b].vinted_id
    /\ \A i \in ThreadIds :
          (/\ AfterSave(threads[i])
           /\ ~HasDuplicates(threads[i].batch)
           /\ \A j \in ThreadIds : j # i => threads[j].key # threads[i].key)
              => Range(threads[i].batch) \subseteq StoredIds

Attempts(h) == Cardinality({i \in 1..Len(h) : h[i].ev = "get"})

\* C10: get() makes at most MAX_RETRIES attempts, ends with a response or a
\* raised error, and a 200 is the last thing the call does: no attempt,
\* identity rotation or cookie refresh follows it and it is what is returned.
C10_GetBoundedShortCircuit ==
    requester.result # "none" =>
        /\ requester.result \in {"response", "raised"}
        /\ Attempts(requester.hist) >= 1
        /\ Attempts(requester.hist) <= MAX_RETRIES
        /\ \A i \in 1..Len(requester.hist) :
              requester.hist[i] = Event("get", 200) =>
                  /\ i = Len(requester.hist)
                  /\ requester.result = "response"
                  /\ requester.status = 200

\* A call that was soft-blocked once, rotated, and then got its 200 on the
\* second attempt.
C10_Witness ==
    /\ requester.result = "response"
    /\ requester.status = 200
    /\ Attempts(requester.hist) = 2
    /\ \E i \in 1..Len(requester.hist) : requester.hist[i] = Event("get", 403)

GetEvents(h) == SelectSeq(h, LAMBDA e : e.ev = "get")

\* C11: a call of get() in which no attempt was answered 200 has made all
\* MAX_RETRIES attempts and hands the caller the outcome of the last one:
\* the response of the last attempt, or a raised error if the last attempt
\* failed at transport level.
C11_LastOutcomeReachesCaller ==
    LET g == GetEvents(requester.hist)
    IN  (requester.result # "none"
         /\ \A i \in 1..Len(g) : g[i].arg # 200)
            => /\ Len(g) = MAX_RETRIES
               /\ IF g[Len(g)].arg = Exc
                  THEN requester.result = "raised"
                  ELSE /\ requester.result = "response"
                       /\ requester.status = g[Len(g)].arg

\* A call that ended by raising: a soft block first, a transport failure
\* on the last attempt.
C11_Witness ==
    LET g == GetEvents(requester.hist)
    IN  /\ requester.result = "raised"
        /\ Len(g) = MAX_RETRIES
        /\ g[1].arg = 403
        /\ g[Len(g)].arg = Exc

\* C12: a run whose catalog request was answered 401/403/404 on every
\* attempt ends as a failed run: its SchedulerLog row is closed as error and
\* the counter is incremented.
C12_SoftBlockFailsRun ==
    \A i \in ThreadIds :
        (/\ threads[i].pc = "done"
         /\ threads[i].fault = "blocked"
         /\ schedulerLog[threads[i].log].status # "deleted")
            => /\ schedulerLog[threads[i].log].status = "error"
               /\ schedulerLog[threads[i].log].error_count >= 1

\* The values returned by the calls of one kind, in call order.
Returned(kind) ==
    LET h == SelectSeq(requester.hist, LAMBDA e : e.ev = kind)
    IN  [k \in 1..Len(h) |-> h[k].arg]

\* Call k of a rotating pool of n entries returns entry ((k-1) mod n) + 1:
\* the first n calls walk the pool in order and call n+1 is call 1 again.
Cycles(q, n) ==
    /\ \A k \in 1..Len(q) : q[k] = ((k - 1) % n) + 1
    /\ \A j, k \in 1..Len(q) : (j < k /\ k <= n) => q[j] # q[k]
    /\ \A k \in 1..Len(q) : k + n <= Len(q) => q[k + n] = q[k]

\* C13: with rotation enabled, consecutive get_user_agent() calls walk the
\* K identities in order, K distinct ones first, and the (K+1)th call gives
\* the 1st again; so do get_proxy() calls over an enabled proxy pool.
C13_RotationCycle ==
    /\ requester.cfg.uaRot
          => Cycles(Returned("headers"), requester.cfg.nUA)
    /\ (requester.cfg.proxiesEnabled /\ requester.cfg.proxyRot
        /\ requester.cfg.nProxy >= 1)
          => Cycles(Returned("proxy"), requester.cfg.nProxy)

\* Three identities, rotation on: four calls made, the fourth returned the
\* first identity again; two proxies: three calls, the third is the first.
C13_Witness ==
    /\ requester.cfg.uaRot
    /\ requester.cfg.nUA = 3
    /\ Returned("headers") = <<1, 2, 3, 1>>
    /\ requester.cfg.proxiesEnabled
    /\ requester.cfg.proxyRot
    /\ requester.cfg.nProxy = 2
    /\ Returned("proxy") = <<1, 2, 1>>

\* C14: with rotation disabled for a pool, every call returns the first
\* entry of that pool and its index stays where it was (for the proxy
\* pool: when proxies are enabled and the pool is not empty).
C14_PinnedWithoutRotation ==
    /\ ~requester.cfg.uaRot
          => /\ \A k \in 1..Len(Returned("headers")) :
                    Returned("headers")[k] = 1
             /\ requester.cfg.uaIdx = 0
    /\ (requester.cfg.proxiesEnabled /\ ~requester.cfg.proxyRot
        /\ requester.cfg.nProxy >= 1)
          => /\ \A k \in 1..Len(Returned("proxy")) :
                    Returned("proxy")[k] = 1
             /\ requester.cfg.proxyIdx = 0

\* Both rotations off, pools of three identities and two proxies, three
\* calls of each made.
C14_Witness ==
    /\ ~requester.cfg.uaRot
    /\ requester.cfg.nUA = 3
    /\ Len(Returned("headers")) = 3
    /\ requester.cfg.proxiesEnabled
    /\ ~requester.cfg.proxyRot
    /\ requester.cfg.nProxy = 2
    /\ Len(Returned("proxy")) = 3

Least(S) == CHOOSE k \in S : \A j \in S : k <= j

Rules == 1..6

\* C15: filter_product tries the six rules in the order minimum price,
\* global words, global sellers, search words, search sellers, allowed
\* countries: a product is accepted exactly when it violates none, and a
\* rejected one carries the reason of the earliest rule it violates.
C15_EarliestRuleDecides ==
    filtering.stage # "loaded" =>
        \A k \in 1..Len(filtering.items) :
            LET broken == {r \in Rules : Violates(r, filtering.cfg,
                                 filtering.items[k], filtering.search)}
                v == filtering.out.verdicts[k]
            IN  /\ v.passes <=> broken = {}
                /\ broken # {} =>
                      v.reason = Reason(Least(broken), filtering.cfg,
                                    filtering.items[k], filtering.search)

\* A filtered product that violates the global word rule and the global
\* seller rule, and a later search rule as well.
C15_Witness ==
    /\ filtering.stage = "filtered"
    /\ \E k \in 1..Len(filtering.items) :
          /\ ~Violates(1, filtering.cfg, filtering.items[k], filtering.search)
          /\ Violates(2, filtering.cfg, filtering.items[k], filtering.search)
          /\ Violates(3, filtering.cfg, filtering.items[k], filtering.search)
          /\ Violates(6, filtering.cfg, filtering.items[k], filtering.search)

\* C16: filter_products applied to the accepted output of filter_products
\* returns the same accepted list and rejects nothing.
C16_FilterIdempotent ==
    filtering.stage = "refiltered" =>
        /\ filtering.again.filtered = filtering.out.filtered
        /\ filtering.again.stats.rejected = 0
        /\ filtering.again.stats.rejection_reasons = NoReasons

\* A list of two products of which the first pass rejected one and accepted
\* the other, filtered a second time.
C16_Witness ==
    /\ filtering.stage = "refiltered"
    /\ filtering.out.stats.rejected = 1
    /\ Len(filtering.out.filtered) = 1

RECURSIVE SumOver(_, _)
SumOver(hist, keys) ==
    IF keys = {} THEN 0
    ELSE LET r == CHOOSE x \in keys : TRUE
         IN  hist[r] + SumOver(hist, keys \ {r})

\* The accepted products are the input with the rejected ones left out.
IsSubSeqInOrder(items, verdicts) ==
    SelectSeq([k \in 1..Len(items) |-> <<items[k], verdicts[k].passes>>],
              LAMBDA pr : pr[2])

\* C17: the statistics of filter_products: total is the input length,
\* accepted + rejected = total, the accepted products are the accepted
\* inputs in input order, every rejected product is counted once under its
\* reason and the counts sum to rejected; and the five products with
\* minimum price 20 and banned word 1 give 3 accepted, 2 rejected, one
\* count under the price reason and one under the word reason.
C17_BatchStatistics ==
    filtering.stage # "loaded" =>
        LET out == filtering.out
            kept == IsSubSeqInOrder(filtering.items, out.verdicts)
            h == out.stats.rejection_reasons
        IN  /\ out.stats.total = Len(filtering.items)
            /\ out.stats.accepted + out.stats.rejected = out.stats.total
            /\ out.stats.accepted = Len(out.filtered)
            /\ out.filtered = [k \in 1..Len(kept) |-> kept[k][1]]
            /\ SumOver(h, DOMAIN h) = out.stats.rejected
            /\ \A r \in DOMAIN h :
                  h[r] = Cardinality({k \in 1..Len(filtering.items) :
                            /\ ~out.verdicts[k].passes
                            /\ out.verdicts[k].reason = r})
            /\ \A k \in 1..Len(filtering.items) :
                  ~out.verdicts[k].passes
                      => out.verdicts[k].reason \in DOMAIN h
            /\ (/\ filtering.items = FiveItems
                /\ filtering.cfg._global_min_price = 20
                /\ filtering.cfg._global_banned_words = <<1>>
                /\ filtering.cfg._global_banned_sellers = <<>>
                /\ ~filtering.search.present)
                  => /\ out.stats.accepted = 3
                     /\ out.stats.rejected = 2
                     /\ h = ([rule |-> 1, arg |-> 15] :> 1)
                              @@ ([rule |-> 2, arg |-> 1] :> 1)

\* The five products filtered with minimum price 20 and banned word 1.
C17_Witness ==
    /\ filtering.stage = "filtered"
    /\ filtering.items = FiveItems
    /\ filtering.cfg._global_min_price = 20
    /\ filtering.cfg._global_banned_words = <<1>>
    /\ filtering.out.stats.rejected = 2

C19_MarkedIffSomeSuccess ==
    notifying.pc = "returned" =>
        /\ notifying.marked <=> AnySuccess(notifying.results)
        /\ notifying.marked => notifying.is_notified
        /\ ~notifying.marked => notifying.is_notified = notifying.was

\* Two channels configured, one sent and one failed, the product marked.
C19_Witness ==
    /\ notifying.pc = "returned"
    /\ notifying.active = {"telegram", "webhook"}
    /\ notifying.tried["telegram"] = "failed"
    /\ notifying.tried["webhook"] = "sent"
    /\ ~notifying.was
    /\ notifying.is_notified

\* The notification step of the run fell short: it saved new products and
\* counted fewer as notified.
NotifyFellShort(t) ==
    /\ t.pc \notin {"spawned", "open", "scrape", "commit", "notify"}
    /\ t.results.products_new > 0
    /\ t.results.products_notified < t.results.products_new

\* C20: a run whose notification step failed (a channel error, or an
\* exception of the fan-out as a whole) is not aborted and does not fail:
\* it goes on to close as success, with its products_new as saved and only
\* products_notified lower.
C20_NotifyFailureKeepsSuccess ==
    \A i \in ThreadIds :
        NotifyFellShort(threads[i])
            => /\ threads[i].pc \in {"close_success", "timestamps", "done"}
               /\ threads[i].pc = "done"
                    => /\ schedulerLog[threads[i].log].status = "success"
                       /\ schedulerLog[threads[i].log].products_new
                            = threads[i].results.products_new
                       /\ schedulerLog[threads[i].log].products_notified
                            = threads[i].results.products_notified

\* A run that ended as success having saved one product, attempted its
\* notification and counted none as notified.
C20_Witness ==
    \E i \in ThreadIds :
        /\ threads[i].pc = "done"
        /\ schedulerLog[threads[i].log].status = "success"
        /\ schedulerLog[threads[i].log].products_new = 1
        /\ schedulerLog[threads[i].log].products_notified = 0
        /\ \E k \in 1..Len(products) :
              /\ products[k].search_id = threads[i].key
              /\ sent[products[k].vinted_id] >= 1
              /\ ~products[k].is_notified

\* A run past its fetch that found no product or had all of them rejected,
\* with nothing raised on the way.
FoundNothing(t) ==
    /\ t.pc \in {"close_success", "timestamps", "done"}
    /\ t.fault = "none"
    /\ t.batch = <<>>
    /\ t.results = NoResults

\* C21: a run that found no product, or whose products were all rejected by
\* the filters, records itself as success with the counter of its search
\* reset to 0, and never enters the except branch.
C21_NothingFoundIsSuccess ==
    [][/\ \A i \in ThreadIds :
            (threads[i].pc = "close_success" /\ threads[i].fault = "none"
             /\ threads[i].batch = <<>> /\ threads'[i] # threads[i])
               => \/ threads'[i].pc = "killed"
                  \/ /\ threads'[i].pc = "timestamps"
                     /\ schedulerLog'[threads[i].log].status = "success"
                     /\ schedulerLog'[threads[i].log].error_count = 0
                     /\ _error_counts'[threads[i].key] = 0
       /\ \A j \in ThreadIds :
             (FoundNothing(threads[j]) /\ threads[j].closed)
                => threads'[j].pc \in {"timestamps", "done", "killed"}]_vars

\* A run that found nothing has just reset to 0 a counter that an earlier
\* failed run of the same search had left at 1.
C21_Witness ==
    \E i, j \in ThreadIds :
        /\ threads[j].pc = "done"
        /\ threads[j].key = threads[i].key
        /\ schedulerLog[threads[j].log].status = "error"
        /\ schedulerLog[threads[j].log].error_count = 1
        /\ j < i
        /\ threads[i].pc = "timestamps"
        /\ FoundNothing(threads[i])
        /\ threads[i].closed
        /\ schedulerLog[threads[i].log].status = "success"
        /\ _error_counts[threads[i].key] = 0

\* The sellers of the list the loop has been through.
Processed == {v \in SellerVids :
                 /\ \E k \in 1..Len(enriching.items) : enriching.items[k] = v
                 /\ \A k \in 1..Len(enriching.todo) : enriching.todo[k] # v}

\* C22: in the seller step a stored seller refreshed less than a day ago is
\* skipped without a fetch and keeps its row; a stored seller refreshed a
\* day ago or more is fetched and, when the fetch returns it, gets the
\* fetched fields and a new refresh time while id, vinted_id and
\* first_seen_at stay; an unknown seller is fetched and inserted.
C22_SellerFreshness ==
    \A v \in Processed :
        LET was == enriching.before[v]
            row == enriching.sellers[v]
            o   == enriching.got[v]
        IN  /\ (was.present /\ Now - was.last_updated_at < 24)
                  => (o = NotTried /\ row = was)
            /\ (was.present /\ Now - was.last_updated_at >= 24)
                  => /\ o # NotTried
                     /\ o.kind = "stored"
                          => row = [was EXCEPT !.data = o.data,
                                               !.last_updated_at = Now]
                     /\ o.kind # "stored" => row = was
            /\ ~was.present
                  => /\ o # NotTried
                     /\ o.kind = "stored"
                          => (row.present /\ row.data = o.data
                              /\ row.first_seen_at = Now
                              /\ \A w \in SellerVids :
                                    (w # v /\ enriching.sellers[w].present)
                                       => enriching.sellers[w].id # row.id)
                     /\ o.kind # "stored" => row = was

\* Three sellers' worth of cases in one run of two: one refreshed 25 hours
\* ago has been fetched and overwritten with first_seen_at kept, and one
\* refreshed 2 hours ago has been skipped.
C22_Witness ==
    /\ enriching.pc = "save"
    /\ \E v, w \in Processed :
          /\ enriching.before[v].present
          /\ enriching.before[v].last_updated_at = Now - 25
          /\ enriching.got[v].kind = "stored"
          /\ enriching.sellers[v].data # enriching.before[v].data
          /\ enriching.sellers[v].first_seen_at = Now - 40
          /\ enriching.before[w].present
          /\ enriching.before[w].last_updated_at = Now - 2
          /\ enriching.got[w] = NotTried

\* The sellers of the list whose fetch or commit failed.
FailedSellers ==
    {v \in Processed :
        enriching.got[v].kind \in {"raised", "commit_raised", "none"}}

\* Every seller of the list has been through the loop: fetched, or skipped
\* as fresh.
AllSellersProcessed ==
    /\ enriching.todo = <<>>
    /\ \A k \in 1..Len(enriching.items) :
          LET w == enriching.items[k]
          IN  enriching.got[w] = NotTried
                 => (enriching.before[w].present
                     /\ IsFresh(enriching.before[w]))

\* C30 as stated: a failure while fetching or storing one seller is
\* contained: the other sellers are still processed, the run goes on to
\* save, and every product of the failed seller is saved with a null seller
\* link.
C30_FailedSellerNullLink ==
    (enriching.pc \in {"save", "saved"} => AllSellersProcessed)
    /\ (enriching.pc = "saved" =>
          /\ Len(enriching.products) = Len(enriching.items)
          /\ \A k \in 1..Len(enriching.items) :
                enriching.items[k] \in FailedSellers
                   => /\ enriching.products[k].seller_vinted_id
                           = enriching.items[k]
                      /\ enriching.products[k].seller_id = NullLink)

\* C30, amended: a failure while fetching or storing one seller is
\* contained: the other sellers are still processed, the run goes on to
\* save, and every product of the failed seller is saved, linked to the
\* row the seller already had, if it had one, and with a null seller link
\* otherwise.
C30_FailedSellerKeepsStoredLink ==
    (enriching.pc \in {"save", "saved"} => AllSellersProcessed)
    /\ (enriching.pc = "saved" =>
          /\ Len(enriching.products) = Len(enriching.items)
          /\ \A k \in 1..Len(enriching.items) :
                enriching.items[k] \in FailedSellers
                   => /\ enriching.products[k].seller_vinted_id
                           = enriching.items[k]
                      /\ enriching.products[k].seller_id =
                           IF enriching.before[enriching.items[k]].present
                           THEN enriching.before[enriching.items[k]].id
                           ELSE NullLink)

\* A run that has saved two products: the fetch of the first seller, which
\* had no row, raised and its product has a null link; the second seller
\* was fetched and stored after that and its product is linked to it.
C30_Witness ==
    /\ enriching.pc = "saved"
    /\ Len(enriching.items) = 2
    /\ ~enriching.before[enriching.items[1]].present
    /\ enriching.got[enriching.items[1]].kind = "raised"
    /\ enriching.products[1].seller_id = NullLink
    /\ enriching.got[enriching.items[2]].kind = "stored"
    /\ enriching.products[2].seller_id
          = enriching.sellers[enriching.items[2]].id
    /\ enriching.products[2].seller_id # NullLink

\* The step is a call of remove_search_job(s) by the API: the search is
\* deleted or deactivated while the scheduler is running.
RemoveCalled(s) ==
    /\ schedState = "running"
    /\ searches[s] # "absent"
    /\ searches'[s] # searches[s]
    /\ searches'[s] \in {"absent", "inactive"}

\* C23: when remove_search_job(search_id) returns, the job search_<id> is
\* not scheduled and _error_counts has no entry for search_id, whether or
\* not the job was scheduled when it was called.
C23_RemoveClearsCounter ==
    [][\A s \in SearchIds :
          RemoveCalled(s) => (s \notin jobs' /\ _error_counts'[s] = Absent)]_vars

JobsWithId(js, id) == {k \in 1..Len(js) : js[k].id = id}

\* C24: add_search_job is an idempotent upsert keyed by search id: no two
\* jobs of the store share an id, right after a call for search s there is
\* exactly one job search_<s> and it carries the interval of that call, and
\* a second call with the same search leaves the job set of the first.
C24_AddIsUpsert ==
    /\ \A id \in JobIds : Cardinality(JobsWithId(scheduler.jobs, id)) <= 1
    /\ scheduler.upsert.s # 0 =>
          LET id == search_job_id(scheduler.upsert.s)
          IN  /\ Cardinality(JobsWithId(scheduler.jobs, id)) = 1
              /\ JobOf(scheduler.jobs, id).interval
                    = Ticks(scheduler.upsert.minutes)
    /\ scheduler.running =>
          \A s \in JobNumbers, minutes \in IntervalMinutes :
             LET once == add_search_job_at(scheduler, s, minutes)
             IN  add_search_job_at(once, s, minutes).jobs = once.jobs

\* add_search_job has just replaced a job that had another interval, next
\* to a job of another search.
C24_Witness ==
    /\ scheduler.upsert.replaced
    /\ scheduler.upsert.minutes = 15
    /\ scheduler.now >= 2
    /\ LET job == JobOf(scheduler.jobs, search_job_id(scheduler.upsert.s))
       IN  /\ job.interval = Ticks(15)
           /\ job.next_run_time = scheduler.now + Ticks(15)
    /\ \E s \in JobNumbers :
          /\ s # scheduler.upsert.s
          /\ get_job(scheduler.jobs, search_job_id(s))

\* C27: the missed fire times of a job collapse into a single catch-up
\* execution: one dispatch calls the job function at most once however many
\* fire times are due, leaves no due fire time behind, and no job has more
\* than max_instances executions in flight.
C27_MissedFiresCoalesce ==
    /\ scheduler.last.calls <= 1
    /\ ~scheduler.last.backlog
    /\ \A id \in JobIds : scheduler.instances[id] <= max_instances

\* A dispatch found three fire times due and started one execution.
C27_Witness ==
    /\ scheduler.last.due >= 3
    /\ scheduler.last.calls = 1

\* C28: get_status() reports the running flag, job counts with jobs_count =
\* search_jobs_count + maintenance_jobs_count, and the next fire times of
\* at most 10 search jobs in ascending order, in every state it is called in.
C28_StatusReports ==
    scheduler.status.called =>
        LET st == scheduler.status
        IN  /\ ~st.raised
            /\ st.running = scheduler.running
            /\ st.jobs_count = st.search_jobs_count + st.maintenance_jobs_count
            /\ Len(st.next_executions) <= 10
            /\ \A a, b \in 1..Len(st.next_executions) :
                  a < b => st.next_executions[a].next_run
                              <= st.next_executions[b].next_run

\* C25: a failure while delivering the threshold alert never escalates: no
\* exception leaves _check_and_notify_error, so the job returns, and from
\* the closing of the row on the row stays error with the counter value it
\* was closed with and the counter keeps that value.
C25_AlertFailureContained ==
    /\ alerting.pc # "escaped"
    /\ alerting.pc # "idle" =>
          /\ schedulerLog[alerting.log].status = "error"
          /\ schedulerLog[alerting.log].error_count = alerting.count
          /\ _error_counts[alerting.key] = alerting.count

\* The alert was due, one channel raised, a later channel was still tried,
\* and the job returned.
C25_Witness ==
    /\ alerting.pc = "returned"
    /\ alerting.count >= Threshold
    /\ "discord" \in alerting.raised
    /\ "webhook" \in alerting.sent

\* C26: the maintenance jobs follow the run/record/error-count contract of
\* the search jobs: a row opened as running is closed as success or error,
\* and the step that closes a row as error counts the failure, in the row's
\* error_count or in the error counters.
C26_MaintenanceContract ==
    [][\A k \in 1..Len(schedulerLog) :
          (schedulerLog[k].status = "running"
           /\ schedulerLog'[k].status # "running")
             => /\ schedulerLog'[k].status \in {"success", "error"}
                /\ schedulerLog'[k].status = "error"
                      => \/ schedulerLog'[k].error_count >= 1
                         \/ _error_counts' # _error_counts]_vars

GetPlaces(h) == {i \in 1..Len(h) : h[i].ev = "get"}

\* The number of the attempt made at place i of the trace.
AttemptNo(h, i) == Cardinality({k \in GetPlaces(h) : k <= i})

\* The argument of the last event of kind ev before place i of the trace,
\* or first when there is none.
InForceAt(h, ev, first, i) ==
    LET before == {k \in 1..(i - 1) : h[k].ev = ev}
    IN  IF before = {} THEN first
        ELSE h[CHOOSE k \in before : \A m \in before : m <= k].arg

\* The attempt at place i failed and is not the last one allowed.
FailedEarly(h, i) ==
    /\ i \in GetPlaces(h)
    /\ AttemptNo(h, i) < MAX_RETRIES
    /\ h[i].arg \in SoftBlock \cup {Exc}

C31_RowThenSaveThenNotify ==
    [][/\ \A i \in ThreadIds :
             (threads[i].pc = "scrape" /\ threads'[i].pc # "scrape")
                => /\ threads[i].log \in LogIds
                   /\ schedulerLog[threads[i].log].search_id = threads[i].key
                   /\ schedulerLog[threads[i].log].status = "running"
       /\ \A v \in VintedIds :
             sent'[v] > sent[v]
                => \E i \in ThreadIds :
                      /\ threads[i].pc = "notify"
                      /\ threads'[i].pc # "notify"
                      /\ v \in Range(threads[i].new)
                      /\ sent[v] = 0
                      /\ \E k \in 1..Len(products) :
                            /\ products[k].vinted_id = v
                            /\ products[k].search_id = threads[i].key
                            /\ ~products[k].is_notified]_vars

\* A run fetched two items of which one was already stored by another
\* search: it saved and notified the other one only.
C31_Witness ==
    \E i \in ThreadIds :
       /\ threads[i].pc = "close_success"
       /\ Len(threads[i].batch) = 2
       /\ threads[i].results.products_new = 1
       /\ threads[i].results.products_notified = 1
       /\ \E v, w \in Range(threads[i].batch) :
             /\ v # w
             /\ sent[v] = 1 /\ sent[w] = 0
             /\ \E k, m \in 1..Len(products) :
                   /\ products[k].vinted_id = v
                   /\ products[k].search_id = threads[i].key
                   /\ products[m].vinted_id = w
                   /\ products[m].search_id # threads[i].key

\* C32: a rate-limit answer makes the channel pause and retry exactly once:
\* a send whose first post is answered 429 pauses once, posts a second time
\* and returns what the second post gives (false on a second 429); no send
\* posts more than twice.
C32_RateLimitRetriesOnce ==
    sending.pc = "returned" =>
        /\ sending.sends <= 2
        /\ sending.outs[1] = "rate_limited" =>
              /\ sending.sends = 2
              /\ sending.pauses = 1
              /\ sending.result = (sending.outs[2] = "ok")
        /\ sending.outs[1] # "rate_limited" => sending.sends = 1

\* The places of _run_search_job that write the counter map.
CompletionPlaces == {"close_success", "except_init", "except_store"}

\* C33: the counter map is written only by the completion handler of the
\* key concerned and by remove_search_job for that key: a step changes the
\* entry of search s only when an execution of s moves through its
\* completion handler or the job of s is removed; a completing execution
\* leaves every other key's entry as it was, its success sets its own entry
\* to 0 and its failure stores its own entry plus one, whatever executions
\* of other searches complete meanwhile.
C33_CounterWrittenByOwnKey ==
    [][/\ \A s \in SearchIds :
             _error_counts'[s] # _error_counts[s]
                => \/ \E i \in ThreadIds :
                         /\ threads[i].key = s
                         /\ threads[i].pc \in CompletionPlaces
                         /\ threads'[i].pc # threads[i].pc
                   \/ s \in jobs /\ s \notin jobs'
       /\ \A i \in ThreadIds :
             (threads[i].pc \in CompletionPlaces
                /\ threads'[i].pc # threads[i].pc)
                => /\ \A s \in SearchIds \ {threads[i].key} :
                         _error_counts'[s] = _error_counts[s]
                   /\ (threads[i].pc = "close_success"
                         /\ threads'[i].pc = "timestamps")
                         => _error_counts'[threads[i].key] = 0
                   /\ (threads[i].pc = "except_store"
                         /\ threads[i].reg = _error_counts[threads[i].key])
                         => _error_counts'[threads[i].key]
                               = _error_counts[threads[i].key] + 1]_vars

\* Executions of two different searches complete concurrently: one has just
\* stored its increment while the other, having loaded its own entry, is
\* about to store, and both entries are present.
C33_Witness ==
    \E i, j \in ThreadIds :
        /\ threads[i].key # threads[j].key
        /\ threads[i].pc = "alert"
        /\ threads[j].pc = "except_store"
        /\ _error_counts[threads[i].key] = threads[i].reg + 1
        /\ _error_counts[threads[j].key] = threads[j].reg

\* Whether the retention sweep is switched on, and its cutoff.
RetentionOn == settings.present /\ settings.auto_delete_products_days # 0
RetentionCutoff == Now - 24 * settings.auto_delete_products_days

\* The number of rows of q equal to row r.
Copies(q, r) == Cardinality({k \in 1..Len(q) : q[k] = r})

C39_NotifiedIsMonotonic ==
    [][/\ Len(products') >= Len(products)
       /\ \A k \in 1..Len(products) :
             /\ products'[k].vinted_id = products[k].vinted_id
             /\ products[k].is_notified => products'[k].is_notified]_vars

\* Of the two items a run stored, one was marked by the delivery of its
\* notification and the other by the aging job, and a later run that
\* fetched both is about to commit nothing new.
C39_Witness ==
    /\ Len(products) = 2
    /\ products[1].is_notified
    /\ products[2].is_notified
    /\ \E i \in ThreadIds :
          threads[i].results = [products_new |-> 2, products_notified |-> 1]
    /\ \E k \in LogIds : schedulerLog[k].search_id = 0
    /\ \E i \in ThreadIds :
          /\ threads[i].pc = "commit"
          /\ threads[i].new = <<>>
          /\ Len(threads[i].batch) = 2

\* C36: an execution of key k that completes after remove_search_job(k)
\* has returned does not re-create or modify the counter entry of k: a
\* scheduled execution whose job has been removed since it was fired
\* leaves the entry of its key as the removal left it.
C36_RemovedKeyStaysCleared ==
    [][\A i \in ThreadIds :
          (/\ ~threads[i].manual
           /\ threads[i].key \notin jobs
           /\ threads[i].pc \in CompletionPlaces
           /\ threads'[i].pc # threads[i].pc)
             => _error_counts'[threads[i].key]
                   = _error_counts[threads[i].key]]_vars

\* C38: the rotation indices of ScraperConfig always point inside their
\* pools: after any sequence of get_user_agent, get_proxy and reload calls
\* 0 <= _user_agent_index < number of identities, and 0 <= _proxy_index <
\* number of proxies when there are proxies, and no call has raised.
C38_IndicesInsidePools ==
    LET c == requester.cfg
    IN  /\ c.uaIdx >= 0
        /\ c.uaIdx < c.nUA
        /\ c.nProxy > 0 => (c.proxyIdx >= 0 /\ c.proxyIdx < c.nProxy)
        /\ requester.result # "raised"

\* C37: when one fetched batch holds two accepted items with the same
\* vinted_id, not yet stored, the commit of the save step leaves exactly
\* one Product row for every vinted_id of the batch and the run goes on
\* without a fault.
C37_DuplicateInBatchStoredOnce ==
    [][\A i \in ThreadIds :
          (/\ threads[i].pc = "commit"
           /\ threads'[i].pc # "commit"
           /\ HasDuplicates(threads[i].new)
           /\ Range(threads[i].new) \cap StoredIds = {})
             => /\ \A v \in Range(threads[i].new) :
                      Cardinality({k \in 1..Len(products') :
                                      products'[k].vinted_id = v}) = 1
                /\ threads'[i].fault = "none"]_vars

\* C35: every Product a run persists was accepted by the filter chain
\* under the run's configuration (filter_product returned true for it),
\* also when the filter step raised.
C35_OnlyAcceptedPersisted ==
    \A k \in 1..Len(running.saved) :
        filter_product(RunFilterConfig, running.saved[k], NoSearch).passes

\* The inequalities between the metrics of a row closed as success.
MetricsOrdered(m) ==
    /\ 0 <= m.products_notified
    /\ m.products_notified <= m.products_new
    /\ m.products_new <= m.products_found - m.products_filtered

====
